---- MODULE Spec2Model ----
(***************************************************************************)
(* Filipino Mahjong rules engine (filipinoMahjongLogic), its AI agent      *)
(* (enhancedMahjongAI) and the page that drives them (GamePage).           *)
(*                                                                         *)
(* A tile is its instance id 1..144; suit and value are functions of the   *)
(* id.  The game state is one record, gameState, with the fields of the    *)
(* GameState object that the engine reads or writes.  Every engine         *)
(* function is an operator from a game state (and arguments) to the game   *)
(* state it leaves behind and its return value.                            *)
(***************************************************************************)
EXTENDS Integers, Sequences, FiniteSets, TLC

VARIABLES gameState, lastCall, explore, tasks, claimInProgress, probe

vars == <<gameState, lastCall, explore, tasks, claimInProgress, probe>>

(***************************************************************************)
(* Bounds of the exploration.                                              *)
(***************************************************************************)
\* discards explored with every choice of tile and every claim, from the deal
MaxTurns == 2
\* wall length at and below which every choice is explored again
EndgameWall == 1
\* engine calls with arbitrary arguments: draws and discards explored
MaxApiCalls == 2
\* ledger length up to which claims are submitted
MaxLedger == 4
\* melds on the table up to which claims are submitted
MaxMelds == 2

(***************************************************************************)
(* Tile model (utils/mahjongTiles is not part of the sources at hand: the  *)
(* set is the 144 tiles of the data model, 4 copies of 34 kinds + 8 bonus).*)
(***************************************************************************)
NumTiles == 144
NumRegular == 136
NoTile == 0
PlayerIds == 0..3
UnknownPlayer == 4

TileIds == 1..NumTiles

\* (suit, rank) identity: 0..8 circles, 9..17 bamboos, 18..26 characters,
\* 27..30 winds, 31..33 dragons, 34..41 the eight bonus tiles
KindOf ==
  [t \in TileIds |->
     IF t <= NumRegular THEN (t - 1) \div 4 ELSE 34 + (t - NumRegular - 1)]

SuitOf ==
  [t \in TileIds |->
     LET k == KindOf[t] IN
     IF k <= 8 THEN "circles"
     ELSE IF k <= 17 THEN "bamboos"
     ELSE IF k <= 26 THEN "characters"
     ELSE IF k <= 30 THEN "winds"
     ELSE IF k <= 33 THEN "dragons"
     ELSE IF k <= 37 THEN "flower"
     ELSE "season"]

\* tile.value: 1..9 for the numbered suits, 0 (absent) otherwise
ValueOf == [t \in TileIds |-> IF KindOf[t] <= 26 THEN (KindOf[t] % 9) + 1 ELSE 0]

Kind(t) == KindOf[t]
TileSuit(t) == SuitOf[t]
TileValue(t) == ValueOf[t]

isBonus(t) == t > NumRegular

NumberedSuits == {"circles", "bamboos", "characters"}

tilesMatch(a, b) == Kind(a) = Kind(b)

createTileSet == [i \in 1..NumTiles |-> i]

(***************************************************************************)
(* Sequence helpers standing for the array methods the engine uses.        *)
(***************************************************************************)
\* s.filter(t => t \in keep)
Filter(s, keep) == SelectSeq(s, LAMBDA t : t \in keep)

Range(s) == {s[i] : i \in 1..Len(s)}

\* s.findIndex(t => t.id = id), 1-based, 0 when absent
FindIndex(s, id) ==
  IF \E i \in 1..Len(s) : s[i] = id
  THEN CHOOSE i \in 1..Len(s) : s[i] = id /\ \A j \in 1..(i - 1) : s[j] # id
  ELSE 0

\* s.splice(i, 1)
RemoveAt(s, i) == [j \in 1..(Len(s) - 1) |-> IF j < i THEN s[j] ELSE s[j + 1]]

\* index = findIndex(id); if (index !== -1) splice(index, 1)
RemoveId(s, id) == IF FindIndex(s, id) = 0 THEN s ELSE RemoveAt(s, FindIndex(s, id))

RECURSIVE RemoveIds(_, _)
\* ids.forEach(id => remove id from s)
RemoveIds(s, ids) ==
  IF ids = <<>> THEN s ELSE RemoveIds(RemoveId(s, Head(ids)), Tail(ids))

\* s.slice(0, n)
Take(s, n) == SubSeq(s, 1, IF n < Len(s) THEN n ELSE Len(s))

\* tiles of s matching tile t, in order
Matching(s, t) == SelectSeq(s, LAMBDA u : tilesMatch(u, t))

RECURSIVE SumLen(_)
SumLen(ss) == IF ss = <<>> THEN 0 ELSE Len(Head(ss)) + SumLen(Tail(ss))

(***************************************************************************)
(* Wall orders the shuffle may produce (two of the 136! permutations).     *)
(* DealClaims gives player 1 seven pairs and the circles 4 6 (waiting on   *)
(* the 5 of circles), player 2 three 5 of circles, player 3 three green    *)
(* dragons and the circles 3 4 6 7; the dealer's first draw is the fourth  *)
(* 5 of circles and the last tile of the wall is the fourth green dragon.  *)
(***************************************************************************)
DealClaims ==
  <<
       1,  33,  49,  61,  13,  21,  37,  38,  17,  18,  19,   2, 129, 130, 131,   9,  73,
      85, 109, 113,  50,  51,  62,  63,  29,  53,  65,  77,  14,  22,  25,  45, 114, 117,
     121, 122,  74,  75,  86,  87,  89,  90, 115, 118,  69,  76,  93,  94, 125, 133,   5,
      70,  97,  98, 126, 127, 119, 123, 134,  57, 116, 124, 135,  34,  20,  95,  66,   3,
      78,  30, 105,  96, 110,  41, 128,  58,  23, 106, 101,  88,   4, 120,  42,  24, 111,
      39,  43,  46,  52,  91,  40,  54,  55,  59,  67,  31, 112,  99,  35,  15, 102,  81,
     136,  44,  79,  82,  83, 107,  80,  71,  26,  10,  64, 108, 100,  60, 103,  32,   6,
      47,  48,  11,   7,  27,  56, 104,   8,  68,  84,  28,  16,  12,  92,  36,  72, 132
  >>

DealPlain ==
  <<
      56,  96,  81, 112, 135, 109,  35,  45, 108, 126, 125, 113, 132, 129,  61,  10,  40,
      91,  29,  97,  23,  83,  34, 110,  63,  54, 115,  24, 123,  17,  15, 134, 124,  32,
     100,  62,  43,   7,  16,  93, 130,  55,  65,  47,  20, 118,  22,  18,  44, 106,  13,
      78,  75, 103,  27,  94,  46, 102, 101,  74,  87,  98,  70,  28,  88,   3,  73,  50,
      90,  72,  52,  14, 105,  99,  37,  66,  92,  41,  33,  86,  71,  53,  36, 111,  59,
      11,  85,   1,  64,  38, 119,  30,  67,  26,  76,  57,  42,  60,   4, 117,  31, 128,
       5,   8,   9,  68, 107,   2,  80,  21, 121,  79,  95,  84, 127,  51,  77,   6,  82,
      89, 114, 104,  69,  12,  19,  39,  58,  25, 133, 122,  48,  49, 131, 136, 120, 116
  >>


Deals == {DealClaims, DealPlain}

\* DealClaims with the dealer's first draw and the draw after it exchanged:
\* the fourth 5 of circles is the first tile drawn after the dealer's
\* discard
DealSelfDraw == [DealClaims EXCEPT ![65] = DealClaims[66], ![66] = DealClaims[65]]

\* DealClaims with five tiles of player 2 exchanged with tiles of the wall:
\* player 2 holds three 5 of circles, a triplet of bamboos 6 and five pairs,
\* and waits on the 5 of circles as player 1 does
DealTwoWins ==
  [DealClaims EXCEPT ![12] = DealClaims[92], ![92] = DealClaims[12],
                     ![28] = DealClaims[76], ![76] = DealClaims[28],
                     ![43] = DealClaims[94], ![94] = DealClaims[43],
                     ![58] = DealClaims[70], ![70] = DealClaims[58],
                     ![59] = DealClaims[67], ![67] = DealClaims[59]]

\* shuffleTiles returns a permutation of its argument
IsShuffleOf(w, ids) == Len(w) = Cardinality(ids) /\ Range(w) = ids

FlowerWallOrder == [i \in 1..(NumTiles - NumRegular) |-> NumRegular + i]

(***************************************************************************)
(* Game state helpers.                                                     *)
(***************************************************************************)
Hand(g, p) == g.players[p].hand
Melds(g, p) == g.players[p].melds
Flowers(g, p) == g.players[p].flowers
Discards(g, p) == g.players[p].discards

PushHand(g, p, t) == [g EXCEPT !.players[p].hand = Append(@, t)]
PushFlower(g, p, t) == [g EXCEPT !.players[p].flowers = Append(@, t)]

RECURSIVE MeldTileCount(_)
\* melds.reduce((sum, meld) => sum + meld.tiles.length, 0)
MeldTileCount(ms) ==
  IF ms = <<>> THEN 0 ELSE Len(Head(ms).tiles) + MeldTileCount(Tail(ms))

(***************************************************************************)
(* drawTile(gameState, playerIndex): Tile | null                           *)
(***************************************************************************)
RECURSIVE DrawLoop(_, _)
\* while (wall.length > 0) { shift; bonus -> flowers, else hand and break }
DrawLoop(g, p) ==
  IF g.wall = <<>> THEN [g |-> g, ret |-> NoTile]
  ELSE LET tile == Head(g.wall)
           g1 == [g EXCEPT !.wall = Tail(@)]
       IN IF isBonus(tile)
          THEN DrawLoop(PushFlower(g1, p, tile), p)
          ELSE [g |-> [PushHand(g1, p, tile) EXCEPT
                         !.isRecentlyDrawn = @ \cup {tile},
                         !.lastDrawnTile = tile,
                         !.phase = "discard",
                         !.hasDrawnThisTurn = TRUE],
                ret |-> tile]

\* drawTile with the phase change made before the wall is looked at
drawTilePhaseFirst(g, p) ==
  IF g.wall = <<>>
  THEN [g |-> [g EXCEPT !.phase = "discard", !.hasDrawnThisTurn = TRUE],
        ret |-> NoTile]
  ELSE DrawLoop([g EXCEPT !.isRecentlyDrawn = @ \ Range(Hand(g, p))], p)

drawTile(g, p) ==
  IF g.wall = <<>> THEN [g |-> g, ret |-> NoTile]
  ELSE DrawLoop([g EXCEPT !.isRecentlyDrawn = @ \ Range(Hand(g, p))], p)

(***************************************************************************)
(* discardTile(gameState, playerIndex, tile): void                         *)
(***************************************************************************)
\* discardTile taking the first tile of the hand that matches the tile
\* (same suit and value) out of the hand instead of the tile itself
discardTileFirstMatch(g, p, tile) ==
  LET tileIndex == FindIndex(Hand(g, p), tile)
      first == Head(Matching(Hand(g, p), tile))
  IN
  IF tileIndex # 0
  THEN [g EXCEPT
          !.isRecentlyDrawn = @ \ Range(Hand(g, p)),
          !.isRecentlyDiscarded = @ \cup {tile},
          !.players[p].hand = RemoveId(@, first),
          !.players[p].discards = Append(@, tile),
          !.discardPile = Append(@, tile),
          !.lastDiscard = tile,
          !.lastDrawnTile = NoTile,
          !.currentPlayer = (g.currentPlayer + 1) % 4,
          !.phase = "draw",
          !.hasDrawnThisTurn = FALSE]
  ELSE g

\* discardTile without the reset of hasDrawnThisTurn
discardTileKeepsDrawn(g, p, tile) ==
  LET tileIndex == FindIndex(Hand(g, p), tile) IN
  IF tileIndex # 0
  THEN [g EXCEPT
          !.isRecentlyDrawn = @ \ Range(Hand(g, p)),
          !.isRecentlyDiscarded = @ \cup {tile},
          !.players[p].hand = RemoveAt(@, tileIndex),
          !.players[p].discards = Append(@, tile),
          !.discardPile = Append(@, tile),
          !.lastDiscard = tile,
          !.lastDrawnTile = NoTile,
          !.currentPlayer = (g.currentPlayer + 1) % 4,
          !.phase = "draw"]
  ELSE g

discardTile(g, p, tile) ==
  LET tileIndex == FindIndex(Hand(g, p), tile) IN
  IF tileIndex # 0
  THEN [g EXCEPT
          !.isRecentlyDrawn = @ \ Range(Hand(g, p)),
          !.isRecentlyDiscarded = @ \cup {tile},
          !.players[p].hand = RemoveAt(@, tileIndex),
          !.players[p].discards = Append(@, tile),
          !.discardPile = Append(@, tile),
          !.lastDiscard = tile,
          !.lastDrawnTile = NoTile,
          !.currentPlayer = (g.currentPlayer + 1) % 4,
          !.phase = "draw",
          !.hasDrawnThisTurn = FALSE]
  ELSE g

(***************************************************************************)
(* ensureCorrectHandSize(gameState, playerIndex)                           *)
(***************************************************************************)
RECURSIVE FlowerPass(_, _, _, _)
\* for (i = hand.length - 1; i >= 0; i--): expose a bonus tile, replace it
FlowerPass(g, p, i, hasFlowers) ==
  IF i = 0 THEN [g |-> g, hasFlowers |-> hasFlowers]
  ELSE LET tile == Hand(g, p)[i] IN
       IF isBonus(tile)
       THEN LET g1 == [PushFlower(g, p, tile) EXCEPT
                         !.players[p].hand = RemoveAt(@, i)]
                g2 == IF g1.wall # <<>>
                      THEN [PushHand(g1, p, Head(g1.wall)) EXCEPT !.wall = Tail(@)]
                      ELSE g1
            IN FlowerPass(g2, p, i - 1, TRUE)
       ELSE FlowerPass(g, p, i - 1, hasFlowers)

RECURSIVE FlowerLoop(_, _)
\* while (hasFlowers) { hasFlowers = false; for ... }
FlowerLoop(g, p) ==
  LET r == FlowerPass(g, p, Len(Hand(g, p)), FALSE) IN
  IF r.hasFlowers THEN FlowerLoop(r.g, p) ELSE r.g

RECURSIVE FillLoop(_, _)
\* while (hand.length < 16 && wall.length > 0) { shift; bonus -> flowers }
FillLoop(g, p) ==
  IF Len(Hand(g, p)) < 16 /\ g.wall # <<>>
  THEN LET tile == Head(g.wall)
           g1 == [g EXCEPT !.wall = Tail(@)]
       IN IF isBonus(tile) THEN FillLoop(PushFlower(g1, p, tile), p)
          ELSE FillLoop(PushHand(g1, p, tile), p)
  ELSE g

ensureCorrectHandSize(g, p) == FillLoop(FlowerLoop(g, p), p)

(***************************************************************************)
(* initializeGame(players): GameState, for the shuffled wall, the shuffled *)
(* flower wall and the dealer index it draws at random.                    *)
(***************************************************************************)
\* 4 rounds x 4 players x 4 tiles: the tiles of wall (0-based positions
\* 16*round + 4*playerIndex + tileCount) that go to playerIndex
DealtHand(wall, p) ==
  [j \in 1..16 |-> wall[16 * ((j - 1) \div 4) + 4 * p + ((j - 1) % 4) + 1]]

\* initializeGame without the draw of the dealer
initializeGameNoDealerDraw(wall, flowerWall, dealerIndex) ==
  LET g0 == [players |-> [p \in PlayerIds |->
                            [hand |-> DealtHand(wall, p), melds |-> <<>>,
                             flowers |-> <<>>, discards |-> <<>>]],
             currentPlayer |-> dealerIndex,
             dealer |-> dealerIndex,
             wall |-> SubSeq(wall, 65, Len(wall)),
             flowerWall |-> flowerWall,
             discardPile |-> <<>>,
             lastDiscard |-> NoTile,
             lastDrawnTile |-> NoTile,
             status |-> "playing",
             winner |-> -1,
             ambitions |-> <<>>,
             phase |-> "discard",
             hasDrawnThisTurn |-> FALSE,
             isRecentlyDrawn |-> {},
             isRecentlyDiscarded |-> {}]
      g4 == ensureCorrectHandSize(ensureCorrectHandSize(
              ensureCorrectHandSize(ensureCorrectHandSize(g0, 0), 1), 2), 3)
  IN g4

\* initializeGame with the seventeenth tile drawn by the player after the dealer
initializeGameNextDraws(wall, flowerWall, dealerIndex) ==
  LET g0 == [players |-> [p \in PlayerIds |->
                            [hand |-> DealtHand(wall, p), melds |-> <<>>,
                             flowers |-> <<>>, discards |-> <<>>]],
             currentPlayer |-> dealerIndex,
             dealer |-> dealerIndex,
             wall |-> SubSeq(wall, 65, Len(wall)),
             flowerWall |-> flowerWall,
             discardPile |-> <<>>,
             lastDiscard |-> NoTile,
             lastDrawnTile |-> NoTile,
             status |-> "playing",
             winner |-> -1,
             ambitions |-> <<>>,
             phase |-> "discard",
             hasDrawnThisTurn |-> FALSE,
             isRecentlyDrawn |-> {},
             isRecentlyDiscarded |-> {}]
      g4 == ensureCorrectHandSize(ensureCorrectHandSize(
              ensureCorrectHandSize(ensureCorrectHandSize(g0, 0), 1), 2), 3)
  IN drawTile(g4, (dealerIndex + 1) % 4).g

\* initializeGame leaving the bonus tiles at the end of the wall
initializeGameBonusInWall(wall, flowerWall, dealerIndex) ==
  LET g4 == initializeGameNoDealerDraw(wall, flowerWall, dealerIndex)
  IN drawTile([g4 EXCEPT !.wall = @ \o flowerWall, !.flowerWall = <<>>],
              dealerIndex).g

initializeGame(wall, flowerWall, dealerIndex) ==
  LET g0 == [players |-> [p \in PlayerIds |->
                            [hand |-> DealtHand(wall, p), melds |-> <<>>,
                             flowers |-> <<>>, discards |-> <<>>]],
             currentPlayer |-> dealerIndex,
             dealer |-> dealerIndex,
             wall |-> SubSeq(wall, 65, Len(wall)),
             flowerWall |-> flowerWall,
             discardPile |-> <<>>,
             lastDiscard |-> NoTile,
             lastDrawnTile |-> NoTile,
             status |-> "playing",
             winner |-> -1,
             ambitions |-> <<>>,
             phase |-> "discard",
             hasDrawnThisTurn |-> FALSE,
             isRecentlyDrawn |-> {},
             isRecentlyDiscarded |-> {}]
      g4 == ensureCorrectHandSize(ensureCorrectHandSize(
              ensureCorrectHandSize(ensureCorrectHandSize(g0, 0), 1), 2), 3)
  IN drawTile(g4, dealerIndex).g

(***************************************************************************)
(* isWinningHand(hand, melds, flowers): WinCondition.                      *)
(* Payouts are in hundredths of the unit stake (1.5 is 150).               *)
(***************************************************************************)
\* `${suit}-${value}-${wind}-${dragon}`: flowers share one key, seasons another
TileKey(t) ==
  IF ~isBonus(t) THEN Kind(t) ELSE IF TileSuit(t) = "flower" THEN 34 ELSE 35

KeyCount(hand, k) == Len(SelectSeq(hand, LAMBDA t : TileKey(t) = k))

Keys(hand) == {TileKey(hand[i]) : i \in 1..Len(hand)}

\* tiles.find(t => t.suit === suit && t.value === value), NoTile when absent
FindTile(tiles, suit, value) ==
  LET hits == SelectSeq(tiles, LAMBDA t : TileSuit(t) = suit /\ TileValue(t) = value)
  IN IF hits = <<>> THEN NoTile ELSE Head(hits)

canFormSequenceFromTiles(tiles) ==
  /\ Len(tiles) = 3
  /\ TileSuit(tiles[1]) \in NumberedSuits
  /\ \A i \in 1..3 : TileSuit(tiles[i]) = TileSuit(tiles[1]) /\ TileValue(tiles[i]) # 0
  /\ LET vs == {TileValue(tiles[i]) : i \in 1..3}
         lo == CHOOSE v \in vs : \A w \in vs : v <= w
     IN vs = {lo, lo + 1, lo + 2}

\* the Map is walked in insertion order; the verdict does not depend on it
checkSevenPairsWithTrio(hand) ==
  LET ks == Keys(hand)
      triples == {k \in ks : KeyCount(hand, k) = 3}
      singles == {k \in ks : KeyCount(hand, k) = 1}
      pairs == Cardinality({k \in ks : KeyCount(hand, k) = 2})
               + 2 * Cardinality({k \in ks : KeyCount(hand, k) = 4})
      remaining == Filter(hand, {t \in Range(hand) : TileKey(t) \in singles})
  IN IF \E k \in ks : KeyCount(hand, k) > 4 THEN FALSE
     ELSE IF Cardinality(triples) > 1 THEN FALSE
     ELSE LET hasTrioOrSequence ==
                IF triples # {} THEN TRUE
                ELSE IF Len(remaining) = 3 THEN canFormSequenceFromTiles(remaining)
                ELSE FALSE
          IN pairs = 7 /\ hasTrioOrSequence

isSietePares(hand) ==
  IF Len(hand) # 17 THEN FALSE
  ELSE LET ks == Keys(hand)
           hasTripleAndPairs ==
             /\ Cardinality(ks) = 8
             /\ \E k \in ks : /\ KeyCount(hand, k) = 3
                              /\ \A j \in ks \ {k} : KeyCount(hand, j) = 2
       IN IF hasTripleAndPairs THEN TRUE ELSE checkSevenPairsWithTrio(hand)

findTriplet(tiles, startIndex) ==
  LET matchingTiles == Matching(tiles, tiles[startIndex]) IN
  IF Len(matchingTiles) >= 3 THEN Take(matchingTiles, 3) ELSE <<>>

findSequence(tiles, startIndex) ==
  LET baseTile == tiles[startIndex] IN
  IF TileSuit(baseTile) \notin NumberedSuits \/ TileValue(baseTile) = 0 THEN <<>>
  ELSE LET nextTile == FindTile(tiles, TileSuit(baseTile), TileValue(baseTile) + 1)
           nextNextTile == FindTile(tiles, TileSuit(baseTile), TileValue(baseTile) + 2)
       IN IF nextTile # NoTile /\ nextNextTile # NoTile
          THEN <<baseTile, nextTile, nextNextTile>>
          ELSE <<>>

NoCombination == [isValid |-> FALSE, trios |-> <<>>, pair |-> <<>>]

RECURSIVE findTriosAndPair(_, _)
RECURSIVE TrioLoop(_, _, _)
\* for (let i = 0; i < tiles.length - 2; i++): triplet first, then sequence
TrioLoop(tiles, neededTrios, i) ==
  IF i > Len(tiles) - 2 THEN NoCombination
  ELSE LET triplet == findTriplet(tiles, i)
           viaTriplet ==
             IF Len(triplet) = 3
             THEN findTriosAndPair(Filter(tiles, Range(tiles) \ Range(triplet)),
                                   neededTrios - 1)
             ELSE NoCombination
       IN IF viaTriplet.isValid
          THEN [isValid |-> TRUE, trios |-> <<triplet>> \o viaTriplet.trios,
                pair |-> viaTriplet.pair]
          ELSE LET sequence == findSequence(tiles, i)
                   viaSequence ==
                     IF Len(sequence) = 3
                     THEN findTriosAndPair(
                            Filter(tiles, Range(tiles) \ Range(sequence)),
                            neededTrios - 1)
                     ELSE NoCombination
               IN IF viaSequence.isValid
                  THEN [isValid |-> TRUE, trios |-> <<sequence>> \o viaSequence.trios,
                        pair |-> viaSequence.pair]
                  ELSE TrioLoop(tiles, neededTrios, i + 1)

\* findTriosAndPair taking any two remaining tiles for the pair
findTriosAndPairAnyPair(tiles, neededTrios) ==
  IF neededTrios = 0
  THEN IF Len(tiles) = 2
       THEN [isValid |-> TRUE, trios |-> <<>>, pair |-> tiles]
       ELSE NoCombination
  ELSE IF Len(tiles) < 3 THEN NoCombination
  ELSE TrioLoop(tiles, neededTrios, 1)

findTriosAndPair(tiles, neededTrios) ==
  IF neededTrios = 0
  THEN IF Len(tiles) = 2 /\ tilesMatch(tiles[1], tiles[2])
       THEN [isValid |-> TRUE, trios |-> <<>>, pair |-> tiles]
       ELSE NoCombination
  ELSE IF Len(tiles) < 3 THEN NoCombination
  ELSE TrioLoop(tiles, neededTrios, 1)

findWinningCombination(tiles, existingMelds) ==
  findTriosAndPair(tiles, 5 - Len(existingMelds))

checkStandardWin(hand, melds) ==
  IF findWinningCombination(hand, melds).isValid
  THEN [isValid |-> TRUE, handType |-> "Standard Win"]
  ELSE [isValid |-> FALSE, handType |-> ""]

RECURSIVE ChowValues(_, _)
\* the values of every chow of the suit, flattened
ChowValues(melds, suit) ==
  IF melds = <<>> THEN <<>>
  ELSE LET m == Head(melds) IN
       IF m.type = "chow" /\ TileSuit(m.tiles[1]) = suit
       THEN [i \in 1..Len(m.tiles) |-> TileValue(m.tiles[i])]
            \o ChowValues(Tail(melds), suit)
       ELSE ChowValues(Tail(melds), suit)

isEscalera(melds) ==
  LET chows == {i \in 1..Len(melds) : melds[i].type = "chow"} IN
  IF Cardinality(chows) < 3 THEN FALSE
  ELSE \E i \in chows :
         LET flatValues == ChowValues(melds, TileSuit(melds[i].tiles[1])) IN
         /\ Len(flatValues) = 9
         /\ \A v \in 1..9 : \E j \in 1..9 : flatValues[j] = v

NotWinning ==
  [isValid |-> FALSE, handType |-> "", ambitions |-> <<>>, totalPayout |-> 0]

\* isWinningHand trying the standard hand before Siete Pares
isWinningHandStandardFirst(hand, melds, flowers) ==
  LET totalTiles == Len(hand) + MeldTileCount(melds)
      standardWin == checkStandardWin(hand, melds)
      escalera == isEscalera(melds)
      noFlowers == Len(flowers) = 0
      allUp == /\ Len(melds) > 0
               /\ \A i \in 1..Len(melds) : melds[i].isConcealed
  IN IF totalTiles # 17 THEN NotWinning
     ELSE IF standardWin.isValid
     THEN [isValid |-> TRUE,
           handType |-> standardWin.handType,
           ambitions |-> <<"todas">>
                         \o (IF escalera THEN <<"escalera">> ELSE <<>>)
                         \o (IF noFlowers THEN <<"no_flowers_end">> ELSE <<>>)
                         \o (IF allUp THEN <<"all_up">> ELSE <<>>),
           totalPayout |-> 100 + (IF escalera THEN 50 ELSE 0)
                           + (IF noFlowers THEN 25 ELSE 0)
                           + (IF allUp THEN 25 ELSE 0)]
     ELSE IF isSietePares(hand)
     THEN [isValid |-> TRUE, handType |-> "Siete Pares",
           ambitions |-> <<"todas", "siete_pares">>, totalPayout |-> 150]
     ELSE NotWinning

\* isWinningHand turning away only the totals below 17
isWinningHandFrom17(hand, melds, flowers) ==
  LET totalTiles == Len(hand) + MeldTileCount(melds) IN
  IF totalTiles < 17 THEN NotWinning
  ELSE IF isSietePares(hand)
  THEN [isValid |-> TRUE, handType |-> "Siete Pares",
        ambitions |-> <<"todas", "siete_pares">>, totalPayout |-> 150]
  ELSE LET standardWin == checkStandardWin(hand, melds) IN
       IF standardWin.isValid
       THEN LET escalera == isEscalera(melds)
                noFlowers == Len(flowers) = 0
                allUp == /\ Len(melds) > 0
                         /\ \A i \in 1..Len(melds) : melds[i].isConcealed
            IN [isValid |-> TRUE,
                handType |-> standardWin.handType,
                ambitions |-> <<"todas">>
                              \o (IF escalera THEN <<"escalera">> ELSE <<>>)
                              \o (IF noFlowers THEN <<"no_flowers_end">> ELSE <<>>)
                              \o (IF allUp THEN <<"all_up">> ELSE <<>>),
                totalPayout |-> 100 + (IF escalera THEN 50 ELSE 0)
                                + (IF noFlowers THEN 25 ELSE 0)
                                + (IF allUp THEN 25 ELSE 0)]
       ELSE NotWinning

isWinningHand(hand, melds, flowers) ==
  LET totalTiles == Len(hand) + MeldTileCount(melds) IN
  IF totalTiles # 17 THEN NotWinning
  ELSE IF isSietePares(hand)
  THEN [isValid |-> TRUE, handType |-> "Siete Pares",
        ambitions |-> <<"todas", "siete_pares">>, totalPayout |-> 150]
  ELSE LET standardWin == checkStandardWin(hand, melds) IN
       IF standardWin.isValid
       THEN LET escalera == isEscalera(melds)
                noFlowers == Len(flowers) = 0
                allUp == /\ Len(melds) > 0
                         /\ \A i \in 1..Len(melds) : melds[i].isConcealed
            IN [isValid |-> TRUE,
                handType |-> standardWin.handType,
                ambitions |-> <<"todas">>
                              \o (IF escalera THEN <<"escalera">> ELSE <<>>)
                              \o (IF noFlowers THEN <<"no_flowers_end">> ELSE <<>>)
                              \o (IF allUp THEN <<"all_up">> ELSE <<>>),
                totalPayout |-> 100 + (IF escalera THEN 50 ELSE 0)
                                + (IF noFlowers THEN 25 ELSE 0)
                                + (IF allUp THEN 25 ELSE 0)]
       ELSE NotWinning

\* payouts[ambition] || 0, in hundredths
getAmbitionPayout(ambition) ==
  CASE ambition \in {"todas", "bisaklat"} -> 100
    [] ambition \in {"secret", "sagasa", "escalera", "siete_pares"} -> 50
    [] ambition \in {"kang", "thirteen_flowers", "no_flowers_start",
                     "no_flowers_end", "all_up", "all_down", "all_chow",
                     "all_pung", "single"} -> 25
    [] OTHER -> 0

InstantAmbitions == {"kang", "secret", "sagasa", "thirteen_flowers", "no_flowers_start"}

recordAmbition(g, playerId, type, payout) ==
  [g EXCEPT !.ambitions = Append(@, [playerId |-> playerId, type |-> type,
                                     payout |-> payout,
                                     isInstant |-> type \in InstantAmbitions])]

\* recording the first ambition of the report only
recordAmbitionsFirstOnly(g, playerId, ambitions) ==
  IF ambitions = <<>> THEN g
  ELSE recordAmbition(g, playerId, Head(ambitions),
                      getAmbitionPayout(Head(ambitions)))

RECURSIVE recordAmbitions(_, _, _)
\* winCondition.ambitions.forEach(a => recordAmbition(.., a, getAmbitionPayout(a)))
recordAmbitions(g, playerId, ambitions) ==
  IF ambitions = <<>> THEN g
  ELSE recordAmbitions(recordAmbition(g, playerId, Head(ambitions),
                                      getAmbitionPayout(Head(ambitions))),
                       playerId, Tail(ambitions))

(***************************************************************************)
(* Claims.  A claim is [type, playerId]; players[i].id is modelled as i,   *)
(* and UnknownPlayer is an id that no player has.                          *)
(***************************************************************************)
ClaimTypes == {"chow", "pung", "kong", "win"}

\* hand.filter(t => t.suit === discard.suit && t.value)
SuitTiles(hand, discard) ==
  SelectSeq(hand, LAMBDA t : TileSuit(t) = TileSuit(discard) /\ TileValue(t) # 0)

HasValue(tiles, v) == \E i \in 1..Len(tiles) : TileValue(tiles[i]) = v

\* canFormSequence without the pattern that has the discard in the middle
canFormSequenceEnds(hand, discard) ==
  IF TileSuit(discard) \notin NumberedSuits THEN FALSE
  ELSE LET suitTiles == SuitTiles(hand, discard)
           discardValue == TileValue(discard)
       IN \/ /\ discardValue <= 7
             /\ HasValue(suitTiles, discardValue + 1)
             /\ HasValue(suitTiles, discardValue + 2)
          \/ /\ discardValue >= 3
             /\ HasValue(suitTiles, discardValue - 1)
             /\ HasValue(suitTiles, discardValue - 2)

canFormSequence(hand, discard) ==
  IF TileSuit(discard) \notin NumberedSuits THEN FALSE
  ELSE LET suitTiles == SuitTiles(hand, discard)
           discardValue == TileValue(discard)
       IN \/ /\ discardValue <= 7
             /\ HasValue(suitTiles, discardValue + 1)
             /\ HasValue(suitTiles, discardValue + 2)
          \/ /\ discardValue >= 2 /\ discardValue <= 8
             /\ HasValue(suitTiles, discardValue - 1)
             /\ HasValue(suitTiles, discardValue + 1)
          \/ /\ discardValue >= 3
             /\ HasValue(suitTiles, discardValue - 1)
             /\ HasValue(suitTiles, discardValue - 2)

\* isValidClaim asking one matching tile too few for a kong
isValidClaimLooseKong(g, claim) ==
  IF claim.playerId \notin PlayerIds \/ g.lastDiscard = NoTile THEN FALSE
  ELSE LET hand == Hand(g, claim.playerId)
           lastDiscard == g.lastDiscard
       IN CASE claim.type = "chow" -> canFormSequence(hand, lastDiscard)
            [] claim.type = "pung" -> Len(Matching(hand, lastDiscard)) >= 2
            [] claim.type = "kong" -> Len(Matching(hand, lastDiscard)) >= 2
            [] claim.type = "win" ->
                 isWinningHand(Append(hand, lastDiscard),
                               Melds(g, claim.playerId),
                               Flowers(g, claim.playerId)).isValid
            [] OTHER -> FALSE

isValidClaim(g, claim) ==
  IF claim.playerId \notin PlayerIds \/ g.lastDiscard = NoTile THEN FALSE
  ELSE LET hand == Hand(g, claim.playerId)
           lastDiscard == g.lastDiscard
       IN CASE claim.type = "chow" -> canFormSequence(hand, lastDiscard)
            [] claim.type = "pung" -> Len(Matching(hand, lastDiscard)) >= 2
            [] claim.type = "kong" -> Len(Matching(hand, lastDiscard)) >= 3
            [] claim.type = "win" ->
                 isWinningHand(Append(hand, lastDiscard),
                               Melds(g, claim.playerId),
                               Flowers(g, claim.playerId)).isValid
            [] OTHER -> FALSE

\* [a, b, c].sort((a, b) => a.value - b.value) for three tiles of distinct values
SortByValue(tiles) ==
  CHOOSE s \in {<<tiles[i], tiles[j], tiles[k]>> :
                  i \in 1..3, j \in 1..3, k \in 1..3} :
    /\ Range(s) = Range(tiles)
    /\ TileValue(s[1]) < TileValue(s[2]) /\ TileValue(s[2]) < TileValue(s[3])

\* formChow trying the pattern with the discard in the middle first
formChowMiddleFirst(hand, discard) ==
  IF TileSuit(discard) \notin NumberedSuits THEN <<>>
  ELSE LET suitTiles == SuitTiles(hand, discard)
           suit == TileSuit(discard)
           discardValue == TileValue(discard)
           next1 == FindTile(suitTiles, suit, discardValue + 1)
           next2 == FindTile(suitTiles, suit, discardValue + 2)
           prev1 == FindTile(suitTiles, suit, discardValue - 1)
           prev2 == FindTile(suitTiles, suit, discardValue - 2)
       IN IF discardValue >= 2 /\ discardValue <= 8
             /\ prev1 # NoTile /\ next1 # NoTile
          THEN SortByValue(<<prev1, discard, next1>>)
          ELSE IF discardValue <= 7 /\ next1 # NoTile /\ next2 # NoTile
          THEN SortByValue(<<discard, next1, next2>>)
          ELSE IF discardValue >= 3 /\ prev2 # NoTile /\ prev1 # NoTile
          THEN SortByValue(<<prev2, prev1, discard>>)
          ELSE <<>>

\* formChow(hand, discard): Tile[] | null (null is the empty sequence)
formChow(hand, discard) ==
  IF TileSuit(discard) \notin NumberedSuits THEN <<>>
  ELSE LET suitTiles == SuitTiles(hand, discard)
           suit == TileSuit(discard)
           discardValue == TileValue(discard)
           next1 == FindTile(suitTiles, suit, discardValue + 1)
           next2 == FindTile(suitTiles, suit, discardValue + 2)
           prev1 == FindTile(suitTiles, suit, discardValue - 1)
           prev2 == FindTile(suitTiles, suit, discardValue - 2)
       IN IF discardValue <= 7 /\ next1 # NoTile /\ next2 # NoTile
          THEN SortByValue(<<discard, next1, next2>>)
          ELSE IF discardValue >= 2 /\ discardValue <= 8
                  /\ prev1 # NoTile /\ next1 # NoTile
          THEN SortByValue(<<prev1, discard, next1>>)
          ELSE IF discardValue >= 3 /\ prev2 # NoTile /\ prev1 # NoTile
          THEN SortByValue(<<prev2, prev1, discard>>)
          ELSE <<>>

\* TakeMeld leaving the claimed tile on the discard pile
TakeMeldKeepsPile(g, playerIndex, type, handTiles, meldTiles) ==
  [g EXCEPT
     !.players[playerIndex].hand = RemoveIds(@, handTiles),
     !.players[playerIndex].melds =
        Append(@, [type |-> type, tiles |-> meldTiles, isConcealed |-> FALSE,
                   claimedFrom |-> g.currentPlayer])]

\* the part the three meld claims share: the discard leaves the shared pile,
\* the hand tiles leave the hand, the exposed meld is appended
TakeMeld(g, playerIndex, type, handTiles, meldTiles) ==
  [g EXCEPT
     !.discardPile = RemoveId(@, g.lastDiscard),
     !.players[playerIndex].hand = RemoveIds(@, handTiles),
     !.players[playerIndex].melds =
        Append(@, [type |-> type, tiles |-> meldTiles, isConcealed |-> FALSE,
                   claimedFrom |-> g.currentPlayer])]

\* currentPlayer = playerIndex; phase = 'discard'; lastDiscard = undefined;
\* hasDrawnThisTurn = true
TakeTurn(g, playerIndex) ==
  [g EXCEPT !.currentPlayer = playerIndex,
            !.phase = "discard",
            !.lastDiscard = NoTile,
            !.hasDrawnThisTurn = TRUE]

Rejected(g) == [g |-> g, ret |-> FALSE]

\* drawTile(gameState, playerIndex) after the kong meld is pushed; the
\* result of the call is dropped
KongReplacement(g, playerIndex) == drawTile(g, playerIndex).g

processClaim(g, claim) ==
  IF ~isValidClaim(g, claim) THEN Rejected(g)
  ELSE
    LET playerIndex == claim.playerId
        hand == Hand(g, playerIndex)
        lastDiscard == g.lastDiscard
    IN CASE claim.type = "chow" ->
              LET chowTiles == formChow(hand, lastDiscard) IN
              IF chowTiles # <<>>
              THEN [g |-> TakeTurn(
                            TakeMeld(g, playerIndex, "chow",
                                     Filter(chowTiles, Range(chowTiles) \ {lastDiscard}),
                                     chowTiles),
                            playerIndex),
                    ret |-> TRUE]
              ELSE Rejected(g)
         [] claim.type = "pung" ->
              LET pungTiles == Take(Matching(hand, lastDiscard), 2) IN
              IF Len(pungTiles) = 2
              THEN [g |-> TakeTurn(
                            recordAmbition(
                              TakeMeld(g, playerIndex, "pung", pungTiles,
                                       <<lastDiscard>> \o pungTiles),
                              claim.playerId, "kang", 25),
                            playerIndex),
                    ret |-> TRUE]
              ELSE Rejected(g)
         [] claim.type = "kong" ->
              LET kongTiles == Take(Matching(hand, lastDiscard), 3) IN
              IF Len(kongTiles) = 3
              THEN [g |-> TakeTurn(
                            recordAmbition(
                              KongReplacement(
                                TakeMeld(g, playerIndex, "kong", kongTiles,
                                         <<lastDiscard>> \o kongTiles),
                                playerIndex),
                              claim.playerId, "kang", 25),
                            playerIndex),
                    ret |-> TRUE]
              ELSE Rejected(g)
         [] claim.type = "win" ->
              LET winCondition == isWinningHand(Append(hand, lastDiscard),
                                                Melds(g, playerIndex),
                                                Flowers(g, playerIndex))
              IN IF winCondition.isValid
                 THEN [g |-> recordAmbitions(
                               [g EXCEPT !.status = "finished",
                                         !.winner = playerIndex],
                               claim.playerId, winCondition.ambitions),
                       ret |-> TRUE]
                 ELSE Rejected(g)
         [] OTHER -> Rejected(g)

(***************************************************************************)
(* EnhancedMahjongAI.  makeDecision returns [action, tile, type]: tile is  *)
(* the tile to discard, type the kind of claim.                            *)
(***************************************************************************)
\* the three AI players are created with createEnhancedAI('expert')
difficulty == "expert"

\* checkForWin(player, extraTile).canWin
checkForWin(g, p, extraTile) ==
  LET testHand == IF extraTile # NoTile THEN Append(Hand(g, p), extraTile)
                  ELSE Hand(g, p)
  IN isWinningHand(testHand, Melds(g, p), Flowers(g, p)).isValid

RECURSIVE ValuesFrom(_, _, _)
\* the values of hand.filter(t => t.suit === suit && t.value)
\*   .sort((a, b) => a.value - b.value), from value v up
ValuesFrom(hand, suit, v) ==
  IF v > 9 THEN <<>>
  ELSE LET n == Len(SelectSeq(hand, LAMBDA t : TileSuit(t) = suit /\ TileValue(t) = v))
       IN [i \in 1..n |-> v] \o ValuesFrom(hand, suit, v + 1)

SuitValues(hand, suit) == ValuesFrom(hand, suit, 1)

\* evaluateSequencePatterns(suitTiles) on the sorted values of the tiles
evaluateSequencePatterns(values) ==
  LET n == Len(values)
      steps == {i \in 1..(n - 1) : values[i + 1] = values[i] + 1}
      runs == {i \in steps : i + 2 <= n /\ values[i + 2] = values[i] + 2}
  IN IF n < 2 THEN 0 ELSE Cardinality(steps) + 2 * Cardinality(runs)

\* evaluateHandValue(hand, melds), melds given by their number
evaluateHandValue(hand, numMelds) ==
  numMelds * 30
  + 25 * Cardinality({k \in Keys(hand) : KeyCount(hand, k) >= 3})
  + 15 * Cardinality({k \in Keys(hand) : KeyCount(hand, k) = 2})
  + 10 * (evaluateSequencePatterns(SuitValues(hand, "circles"))
          + evaluateSequencePatterns(SuitValues(hand, "bamboos"))
          + evaluateSequencePatterns(SuitValues(hand, "characters")))
  + (17 - Len(hand)) * 5

\* getAllPossibleSequences(hand, discard): Tile[][]
getAllPossibleSequences(hand, discard) ==
  IF TileSuit(discard) \notin NumberedSuits THEN <<>>
  ELSE LET suitTiles == SuitTiles(hand, discard)
           suit == TileSuit(discard)
           discardValue == TileValue(discard)
           next1 == FindTile(suitTiles, suit, discardValue + 1)
           next2 == FindTile(suitTiles, suit, discardValue + 2)
           prev1 == FindTile(suitTiles, suit, discardValue - 1)
           prev2 == FindTile(suitTiles, suit, discardValue - 2)
       IN (IF discardValue <= 7 /\ next1 # NoTile /\ next2 # NoTile
           THEN <<(<<discard, next1, next2>>)>> ELSE <<>>)
          \o (IF discardValue >= 2 /\ discardValue <= 8
                 /\ prev1 # NoTile /\ next1 # NoTile
              THEN <<(<<prev1, discard, next1>>)>> ELSE <<>>)
          \o (IF discardValue >= 3 /\ prev2 # NoTile /\ prev1 # NoTile
              THEN <<(<<prev2, prev1, discard>>)>> ELSE <<>>)

\* shouldClaim(player, discardedTile, gameState): the type of the claim to
\* make, "" when shouldClaim is false
shouldClaim(g, p, discardedTile) ==
  LET hand == Hand(g, p)
      numMelds == Len(Melds(g, p))
      matchingTiles == Matching(hand, discardedTile)
      handValue == evaluateHandValue(hand, numMelds)
      sequences == getAllPossibleSequences(hand, discardedTile)
      sequenceTiles == SelectSeq(sequences[1], LAMBDA t : t # discardedTile)
  IN IF checkForWin(g, p, discardedTile) THEN "win"
     ELSE IF /\ Len(matchingTiles) >= 3
             /\ isValidClaim(g, [type |-> "kong", playerId |-> p])
     THEN "kong"
     ELSE IF /\ Len(matchingTiles) >= 2
             /\ isValidClaim(g, [type |-> "pung", playerId |-> p])
             /\ evaluateHandValue(RemoveIds(hand, Take(matchingTiles, 2)),
                                  numMelds + 1) > handValue + 15
     THEN "pung"
     ELSE IF /\ Len(sequences) > 0
             /\ isValidClaim(g, [type |-> "chow", playerId |-> p])
             /\ evaluateHandValue(RemoveIds(hand, sequenceTiles),
                                  numMelds + 1) > handValue + 10
             /\ difficulty = "expert"
     THEN "chow"
     ELSE ""

\* evaluateSequencePotential(tile, hand)
evaluateSequencePotential(tile, hand) ==
  IF TileValue(tile) = 0 \/ TileSuit(tile) \notin NumberedSuits THEN 0
  ELSE LET suitTiles == SuitTiles(hand, tile)
           value == TileValue(tile)
           hasLower == HasValue(suitTiles, value - 1)
           hasHigher == HasValue(suitTiles, value + 1)
           hasLower2 == HasValue(suitTiles, value - 2)
           hasHigher2 == HasValue(suitTiles, value + 2)
       IN (IF hasLower /\ hasHigher THEN 30 ELSE 0)
          + (IF hasLower \/ hasHigher THEN 15 ELSE 0)
          + (IF hasLower2 \/ hasHigher2 THEN 10 ELSE 0)

\* evaluateDangerLevel(tile, gameState)
evaluateDangerLevel(tile, g) ==
  LET allDiscards == Discards(g, 0) \o Discards(g, 1) \o Discards(g, 2)
                     \o Discards(g, 3)
      sameTypeDiscards == Matching(allDiscards, tile)
  IN 0 - Len(sameTypeDiscards) * 5
     + (IF TileValue(tile) >= 4 /\ TileValue(tile) <= 6 THEN 10 ELSE 0)
     - (IF TileSuit(tile) \in {"winds", "dragons"} THEN 5 ELSE 0)

\* evaluateDiscardValue(tile, player, gameState)
evaluateDiscardValue(tile, hand, g) ==
  LET remainingHand == SelectSeq(hand, LAMBDA t : t # tile)
      matchingTiles == Matching(remainingHand, tile)
  IN (IF TileSuit(tile) \in {"winds", "dragons"} THEN 20 ELSE 10)
     - (IF Len(matchingTiles) >= 2 THEN 50
        ELSE IF Len(matchingTiles) = 1 THEN 25 ELSE 0)
     - (IF TileSuit(tile) \in NumberedSuits /\ TileValue(tile) # 0
        THEN evaluateSequencePotential(tile, remainingHand) ELSE 0)
     + evaluateDangerLevel(tile, g)
     + (IF TileValue(tile) = 1 \/ TileValue(tile) = 9 THEN 5 ELSE 0)
     - (IF TileValue(tile) >= 4 /\ TileValue(tile) <= 6 THEN 5 ELSE 0)

Max(a, b) == IF a >= b THEN a ELSE b
Min(a, b) == IF a <= b THEN a ELSE b

\* analyzePairsStrategy(hand).tilesAwayFromWin
analyzePairsStrategy(hand) ==
  LET count(n) == Cardinality({k \in Keys(hand) : KeyCount(hand, k) = n})
      pairs == count(2) + 2 * count(4)
      singles == count(1)
      triples == count(3)
      neededPairs == Max(0, 7 - pairs)
      neededTriples == Max(0, 1 - triples)
      availableSingles == Min(singles, neededPairs)
  IN Max(0, neededPairs + neededTriples - availableSingles)

RECURSIVE CountRuns(_, _)
\* the loop of countPotentialSequences from position i (1-based)
CountRuns(values, i) ==
  IF i > Len(values) - 2 THEN 0
  ELSE IF values[i + 1] = values[i] + 1 /\ values[i + 2] = values[i] + 2
  THEN 1 + CountRuns(values, i + 3)
  ELSE CountRuns(values, i + 1)

\* countPotentialSequences(suitTiles) on the sorted values of the tiles
countPotentialSequences(values) ==
  IF Len(values) < 3 THEN 0 ELSE CountRuns(values, 1)

\* analyzeStandardStrategy(hand, existingMelds).tilesAwayFromWin
analyzeStandardStrategy(hand, existingMelds) ==
  LET neededMelds == 5 - existingMelds
      neededPairs == 1
      potentialPairs == Cardinality({k \in Keys(hand) : KeyCount(hand, k) = 2})
      potentialMelds ==
        Cardinality({k \in Keys(hand) : KeyCount(hand, k) >= 3})
        + countPotentialSequences(SuitValues(hand, "circles"))
        + countPotentialSequences(SuitValues(hand, "bamboos"))
        + countPotentialSequences(SuitValues(hand, "characters"))
  IN Max(0, neededMelds - potentialMelds) + Max(0, neededPairs - potentialPairs)

\* analyzeWinningPotential(player): [tilesAwayFromWin, bestStrategy]
analyzeWinningPotential(hand, totalMelds) ==
  LET pairsAnalysis == analyzePairsStrategy(hand)
      standardAnalysis == analyzeStandardStrategy(hand, totalMelds)
  IN IF pairsAnalysis <= standardAnalysis
     THEN [tilesAwayFromWin |-> pairsAnalysis, bestStrategy |-> "pairs"]
     ELSE [tilesAwayFromWin |-> standardAnalysis,
           bestStrategy |-> IF standardAnalysis <= 3 THEN "sequences"
                            ELSE "mixed"]

\* evaluateDiscardValueForWin without the base penalty and with the penalties
\* for pairs and triplets taken off instead of added
evaluateDiscardValueForWinRewards(tile, hand, winningAnalysis) ==
  LET matchingTiles == SelectSeq(hand, LAMBDA t : TileKey(t) = TileKey(tile) /\ t # tile)
  IN IF winningAnalysis.bestStrategy = "pairs"
     THEN (IF Len(matchingTiles) = 1 THEN 0 - 100
           ELSE IF Len(matchingTiles) = 0 THEN 0 - 20 ELSE 0)
     ELSE (IF TileSuit(tile) \in NumberedSuits /\ TileValue(tile) # 0
           THEN 2 * evaluateSequencePotential(
                      tile, SelectSeq(hand, LAMBDA t : t # tile))
           ELSE 0)
          - (IF Len(matchingTiles) >= 2 THEN 150
             ELSE IF Len(matchingTiles) = 1 THEN 75 ELSE 0)

\* evaluateDiscardValueForWin(tile, player, gameState, winningAnalysis)
evaluateDiscardValueForWin(tile, hand, winningAnalysis) ==
  LET matchingTiles == SelectSeq(hand, LAMBDA t : TileKey(t) = TileKey(tile) /\ t # tile)
  IN IF winningAnalysis.bestStrategy = "pairs"
     THEN 50 + (IF Len(matchingTiles) = 1 THEN 100
                ELSE IF Len(matchingTiles) = 0 THEN 0 - 20 ELSE 0)
     ELSE 50
          + (IF TileSuit(tile) \in NumberedSuits /\ TileValue(tile) # 0
             THEN 2 * evaluateSequencePotential(
                        tile, SelectSeq(hand, LAMBDA t : t # tile))
             ELSE 0)
          + (IF Len(matchingTiles) >= 2 THEN 150
             ELSE IF Len(matchingTiles) = 1 THEN 75 ELSE 0)

\* chooseBestDiscard(player, gameState): the first tile of the hand with the
\* lowest value, NoTile (undefined) on an empty hand
chooseBestDiscard(g, p) ==
  LET hand == Hand(g, p)
      winningAnalysis == analyzeWinningPotential(hand, Len(Melds(g, p)))
      value == [i \in 1..Len(hand) |->
                  IF winningAnalysis.tilesAwayFromWin <= 2
                  THEN evaluateDiscardValueForWin(hand[i], hand, winningAnalysis)
                  ELSE evaluateDiscardValue(hand[i], hand, g)]
  IN IF hand = <<>> THEN NoTile
     ELSE hand[CHOOSE i \in 1..Len(hand) :
                 \A j \in 1..Len(hand) :
                   value[i] < value[j] \/ (value[i] = value[j] /\ i <= j)]

Decision(action, tile, type) == [action |-> action, tile |-> tile, type |-> type]

\* makeDecision(gameState, playerId)
makeDecision(g, p) ==
  IF checkForWin(g, p, g.lastDiscard) THEN Decision("win", NoTile, "")
  ELSE IF /\ g.lastDiscard # NoTile /\ g.phase = "draw"
          /\ shouldClaim(g, p, g.lastDiscard) # ""
  THEN Decision("claim", NoTile, shouldClaim(g, p, g.lastDiscard))
  ELSE IF g.phase = "discard" /\ g.currentPlayer = p
  THEN Decision("discard", chooseBestDiscard(g, p), "")
  ELSE Decision("draw", NoTile, "")

\* the game object after makeDecision, had checkForWin pushed extraTile on
\* player.hand instead of copying the hand
afterMakeDecisionPushed(g, p) ==
  IF g.lastDiscard # NoTile THEN PushHand(g, p, g.lastDiscard) ELSE g

\* the game object after makeDecision(g, p) has returned.  makeDecision and
\* what it calls reach the arrays of the game through find, findIndex,
\* filter, some, slice, map, reduce and spread copies ([...player.hand],
\* [...player.melds, m]); sort, push and splice are applied to the arrays
\* these return and to local ones, and no field of the game or of a tile
\* is assigned.
afterMakeDecision(g, p) == g

(***************************************************************************)
(* State: the game, the last call with its result, which part of the game  *)
(* this behaviour explores with every choice, and, for the page, the       *)
(* pending timers and AI turns and the claimInProgress flag.               *)
(***************************************************************************)
Call(op, player, tile, type, ok) ==
  [op |-> op, player |-> player, tile |-> tile, type |-> type, ok |-> ok]

TurnsPlayed(g) ==
  Len(Discards(g, 0)) + Len(Discards(g, 1)) + Len(Discards(g, 2)) + Len(Discards(g, 3))

TotalMelds(g) ==
  Len(Melds(g, 0)) + Len(Melds(g, 1)) + Len(Melds(g, 2)) + Len(Melds(g, 3))

\* tiles drawn from the wall since initializeGame returned
DrawsMade(g) == (NumRegular - 65) - Len(g.wall)

\* every discard and claim is explored; elsewhere play follows one line
\* (discard the tile just drawn, no claims) so that the wall can run out
FreeChoice ==
  \/ explore = "opening"
  \/ explore = "endgame" /\ Len(gameState.wall) <= EndgameWall

\* hand positions a caller discards from: the first tile or the tile that
\* entered the hand last when every choice is explored, else the last
DiscardChoices(n) == IF n = 0 THEN {} ELSE IF FreeChoice THEN {1, n} ELSE {n}

\* An isWinningHand call made outside a game: its arguments, how the hand
\* was put together (trios and pairs added, last trio of the menu used,
\* tiles moved) and what it returned.
WinCall(hand, melds, flowers, trios, lastTrio, pairs, moves) ==
  [hand |-> hand, melds |-> melds, flowers |-> flowers,
   trios |-> trios, lastTrio |-> lastTrio, pairs |-> pairs, moves |-> moves,
   ret |-> isWinningHand(hand, melds, flowers)]

\* no such call is being made
NoProbe == WinCall(<<>>, <<>>, <<>>, 0, 1, 0, 0)

InitWith(mode, deals, dealers) ==
  /\ explore = mode
  /\ probe = NoProbe
  /\ \E wall \in deals, dealerIndex \in dealers :
       /\ IsShuffleOf(wall, 1..NumRegular)
       /\ gameState = initializeGame(wall, FlowerWallOrder, dealerIndex)
       /\ lastCall = Call("initializeGame", dealerIndex, NoTile, "", TRUE)

\* no page: nothing is scheduled
NoPage == tasks = <<>> /\ claimInProgress = FALSE

Init ==
  /\ \E mode \in {"opening", "endgame"} : InitWith(mode, Deals, PlayerIds)
  /\ NoPage

(***************************************************************************)
(* Engine calls.                                                           *)
(***************************************************************************)
DrawTile(p) ==
  LET r == drawTile(gameState, p) IN
  /\ gameState' = r.g
  /\ lastCall' = Call("drawTile", p, r.ret, "", r.ret # NoTile)
  /\ UNCHANGED <<explore, probe, tasks, claimInProgress>>

DiscardTile(p, tile) ==
  /\ gameState' = discardTile(gameState, p, tile)
  /\ lastCall' = Call("discardTile", p, tile, "",
                      FindIndex(Hand(gameState, p), tile) # 0)
  /\ UNCHANGED <<explore, probe, tasks, claimInProgress>>

ProcessClaim(playerId, type) ==
  LET r == processClaim(gameState, [type |-> type, playerId |-> playerId]) IN
  /\ gameState' = r.g
  /\ lastCall' = Call("processClaim", playerId, gameState.lastDiscard, type, r.ret)
  /\ UNCHANGED <<explore, probe, tasks, claimInProgress>>

(***************************************************************************)
(* The callers of GamePage: they draw and discard for the current player   *)
(* in the matching phase (handleTileClick, handleDiscard, simulateAITurn), *)
(* and claim while the Claim button is enabled (PlayerHand) or while an AI *)
(* decision to claim is applied.  The claim dialog offers chow, pung and   *)
(* kong only when they are valid, and WIN always (GameTable).              *)
(***************************************************************************)
PlayerDraws ==
  \E p \in PlayerIds :
    /\ lastCall.ok
    /\ gameState.status = "playing"
    /\ gameState.currentPlayer = p
    /\ gameState.phase = "draw"
    /\ DrawTile(p)

PlayerDiscards ==
  \E p \in PlayerIds :
    /\ lastCall.ok
    /\ gameState.status = "playing"
    /\ gameState.currentPlayer = p
    /\ gameState.phase = "discard"
    /\ explore = "opening" => TurnsPlayed(gameState) < MaxTurns
    /\ \E i \in DiscardChoices(Len(Hand(gameState, p))) :
         /\ DiscardTile(p, Hand(gameState, p)[i])

PlayerClaims ==
  \E p \in PlayerIds, type \in ClaimTypes :
    /\ lastCall.ok
    /\ FreeChoice
    /\ gameState.lastDiscard # NoTile
    /\ gameState.currentPlayer # p \/ ~gameState.hasDrawnThisTurn
    /\ Len(gameState.ambitions) < MaxLedger
    /\ TotalMelds(gameState) < MaxMelds
    /\ type = "win" \/ isValidClaim(gameState, [type |-> type, playerId |-> p])
    /\ ProcessClaim(p, type)

Next == PlayerDraws \/ PlayerDiscards \/ PlayerClaims

Spec == Init /\ [][Next]_vars

\* the same callers on the wall order DealSelfDraw
InitSelfDraw == InitWith("opening", {DealSelfDraw}, PlayerIds) /\ NoPage

SpecSelfDraw == InitSelfDraw /\ [][Next]_vars

\* the same callers on the wall order DealTwoWins
InitTwoWins == InitWith("opening", {DealTwoWins}, PlayerIds) /\ NoPage

SpecTwoWins == InitTwoWins /\ [][Next]_vars

(***************************************************************************)
(* The engine called with arbitrary arguments, in any order.  A call that   *)
(* was refused is the last one explored on its path.                       *)
(***************************************************************************)
InitAPI == InitWith("api", {DealClaims}, {0}) /\ NoPage

\* the last tile of the hand and a tile that is not in the hand
ApiTiles(p) ==
  LET hand == Hand(gameState, p) IN
  (IF hand = <<>> THEN {} ELSE {hand[Len(hand)]})
  \cup (IF gameState.wall = <<>> THEN {} ELSE {Head(gameState.wall)})

ApiDraws ==
  \E p \in PlayerIds :
    /\ lastCall.ok
    /\ DrawsMade(gameState) + TurnsPlayed(gameState) < MaxApiCalls
    /\ DrawTile(p)

ApiDiscards ==
  \E p \in PlayerIds :
    \E tile \in ApiTiles(p) :
      /\ lastCall.ok
      /\ DrawsMade(gameState) + TurnsPlayed(gameState) < MaxApiCalls
      /\ DiscardTile(p, tile)

ApiClaims ==
  \E playerId \in PlayerIds \cup {UnknownPlayer}, type \in ClaimTypes \cup {"none"} :
    /\ lastCall.ok
    /\ Len(gameState.ambitions) < MaxLedger
    /\ TotalMelds(gameState) < MaxMelds
    /\ ProcessClaim(playerId, type)

NextAPI == ApiDraws \/ ApiDiscards \/ ApiClaims

SpecAPI == InitAPI /\ [][NextAPI]_vars

(***************************************************************************)
(* GamePage: the user is players[0] and the other three players are AIs.   *)
(* The engine mutates the arrays of the game in place, and every           *)
(* setGameState({ ...g }) copies the top-level fields of g only: the arrays*)
(* (hands, melds, discards, wall, pile, ledger) are shared by all copies,  *)
(* while currentPlayer, phase, lastDiscard, lastDrawnTile,                 *)
(* hasDrawnThisTurn, status and winner belong to each copy.  gameState is  *)
(* the copy React holds, which the handlers of the user act on; a pending  *)
(* timer or AI turn keeps the fields of the copy it was started with in    *)
(* its view.  A task also keeps claimInProgress as it was in the render    *)
(* whose closure scheduled it (cip).  claimTimeout is set and reset        *)
(* together with claimInProgress, so a chain of AI turns that gets past    *)
(* the claimInProgress test holds no timer to clear.                       *)
(***************************************************************************)
UserIndex == 0

ViewOf(g) ==
  [currentPlayer |-> g.currentPlayer, phase |-> g.phase,
   lastDiscard |-> g.lastDiscard, lastDrawnTile |-> g.lastDrawnTile,
   hasDrawnThisTurn |-> g.hasDrawnThisTurn, status |-> g.status,
   winner |-> g.winner]

\* the game object a task holds: the shared arrays and its own fields
Seen(view) ==
  [gameState EXCEPT !.currentPlayer = view.currentPlayer,
                    !.phase = view.phase,
                    !.lastDiscard = view.lastDiscard,
                    !.lastDrawnTile = view.lastDrawnTile,
                    !.hasDrawnThisTurn = view.hasDrawnThisTurn,
                    !.status = view.status,
                    !.winner = view.winner]

\* the copy `into` after the game object `from`, which holds the same
\* arrays and tiles, was written to: the arrays and the tiles are shared
Shared(into, from) ==
  [into EXCEPT !.players = from.players,
               !.wall = from.wall,
               !.flowerWall = from.flowerWall,
               !.discardPile = from.discardPile,
               !.ambitions = from.ambitions,
               !.isRecentlyDrawn = from.isRecentlyDrawn,
               !.isRecentlyDiscarded = from.isRecentlyDiscarded]

\* setTimeout(() => simulateAITurn(g), ..)
TurnTask(view, cip) ==
  [kind |-> "turn", view |-> view, cip |-> cip, decision |-> Decision("", NoTile, "")]

\* simulateAITurn suspended at await simulateThinkingTime(1.5)
ThinkTask(view, cip, decision) ==
  [kind |-> "think", view |-> view, cip |-> cip, decision |-> decision]

\* the claim window timer set after an AI discard
WindowTask(view, cip) ==
  [kind |-> "window", view |-> view, cip |-> cip, decision |-> Decision("", NoTile, "")]

Replace(i, task) == [tasks EXCEPT ![i] = task]

\* initializeGameState: the game is created and the first AI turn scheduled
\* unless the user is the dealer
InitOrch ==
  /\ \E mode \in {"opening", "endgame"} : InitWith(mode, Deals, PlayerIds)
  /\ claimInProgress = FALSE
  /\ tasks = IF gameState.currentPlayer # UserIndex
             THEN <<TurnTask(ViewOf(gameState), FALSE)>> ELSE <<>>

\* simulateAITurn up to its await: the guards and makeDecision
SimulateAITurn ==
  \E i \in 1..Len(tasks) :
    LET task == tasks[i]
        g == Seen(task.view)
        p == g.currentPlayer
        stop == g.status # "playing" \/ task.cip \/ p = UserIndex
    IN /\ task.kind = "turn"
       /\ tasks' = IF stop THEN RemoveAt(tasks, i)
                   ELSE Replace(i, ThinkTask(task.view, task.cip, makeDecision(g, p)))
       /\ gameState' = IF stop THEN gameState
                       ELSE Shared(gameState, afterMakeDecision(g, p))
       /\ lastCall' = Call("simulateAITurn", p, NoTile, "", ~stop)
       /\ UNCHANGED <<explore, probe, claimInProgress>>

\* case 'draw'
ApplyDraw(i) ==
  \E r \in {drawTile(Seen(tasks[i].view), tasks[i].view.currentPlayer)} :
  LET task == tasks[i]
      g == Seen(task.view)
      p == g.currentPlayer
  IN IF g.phase = "draw"
     THEN /\ gameState' = r.g
          /\ tasks' = Replace(i, TurnTask(ViewOf(r.g), task.cip))
          /\ lastCall' = Call("drawTile", p, r.ret, "", r.ret # NoTile)
          /\ UNCHANGED <<explore, probe, claimInProgress>>
     ELSE /\ tasks' = RemoveAt(tasks, i)
          /\ lastCall' = Call("simulateAITurn", p, NoTile, "draw", FALSE)
          /\ UNCHANGED <<gameState, explore, probe, claimInProgress>>

\* case 'discard'
ApplyDiscard(i) ==
  LET task == tasks[i]
      g == Seen(task.view)
      p == g.currentPlayer
      tile == task.decision.tile
      after == discardTile(g, p, tile)
  IN IF g.phase = "discard" /\ tile # NoTile
     THEN /\ explore = "opening" => TurnsPlayed(gameState) < MaxTurns
          /\ gameState' = after
          /\ claimInProgress' = TRUE
          /\ tasks' = Replace(i, WindowTask(ViewOf(after), task.cip))
          /\ lastCall' = Call("discardTile", p, tile, "",
                              FindIndex(Hand(g, p), tile) # 0)
          /\ UNCHANGED <<explore, probe, probe>>
     ELSE /\ tasks' = RemoveAt(tasks, i)
          /\ lastCall' = Call("simulateAITurn", p, NoTile, "discard", FALSE)
          /\ UNCHANGED <<gameState, explore, probe, claimInProgress>>

\* case 'claim' (type is the claim of the decision) and case 'win'
ApplyClaim(i, type, continues) ==
  \E r \in {processClaim(Seen(tasks[i].view),
                          [type |-> type,
                           playerId |-> tasks[i].view.currentPlayer])} :
  LET task == tasks[i]
      g == Seen(task.view)
      p == g.currentPlayer
  IN /\ lastCall' = Call("processClaim", p, g.lastDiscard, type, r.ret)
     /\ IF r.ret
        THEN /\ gameState' = r.g
             /\ claimInProgress' = IF continues THEN FALSE ELSE claimInProgress
             /\ tasks' = IF continues /\ r.g.phase = "discard"
                         THEN Replace(i, TurnTask(ViewOf(r.g), task.cip))
                         ELSE RemoveAt(tasks, i)
             /\ UNCHANGED <<explore, probe, probe>>
        ELSE /\ tasks' = RemoveAt(tasks, i)
             /\ UNCHANGED <<gameState, explore, probe, claimInProgress>>

\* simulateAITurn after its await: the decision is executed
ApplyDecision ==
  \E i \in 1..Len(tasks) :
    /\ tasks[i].kind = "think"
    /\ CASE tasks[i].decision.action = "draw" -> ApplyDraw(i)
         [] tasks[i].decision.action = "discard" -> ApplyDiscard(i)
         [] tasks[i].decision.action \in {"claim", "win"} ->
              ApplyClaim(i, IF tasks[i].decision.action = "win" THEN "win"
                            ELSE tasks[i].decision.type,
                         tasks[i].decision.action = "claim")

\* the claim window timer fires: the next AI turn is scheduled unless the
\* next player is the user
ClaimWindowExpires ==
  \E i \in 1..Len(tasks) :
    LET task == tasks[i] IN
    /\ task.kind = "window"
    /\ claimInProgress' = FALSE
    /\ tasks' = IF task.view.currentPlayer # UserIndex
                THEN Replace(i, TurnTask(task.view, task.cip))
                ELSE RemoveAt(tasks, i)
    /\ lastCall' = Call("claimTimeout", task.view.currentPlayer, NoTile, "", TRUE)
    /\ UNCHANGED <<gameState, explore, probe>>

\* the finished game replaces the table, and with it every control
TableShown == gameState.status # "finished"

\* handleTileClick in the draw phase of the user's turn
HandleTileClick ==
  LET r == drawTile(gameState, UserIndex) IN
  /\ TableShown
  /\ gameState.currentPlayer = UserIndex
  /\ gameState.phase = "draw"
  /\ gameState' = r.g
  /\ lastCall' = Call("drawTile", UserIndex, r.ret, "", r.ret # NoTile)
  /\ UNCHANGED <<explore, probe, tasks, claimInProgress>>

\* handleDiscard(tile) for a tile selected in the user's hand
HandleDiscard ==
  \E i \in DiscardChoices(Len(Hand(gameState, UserIndex))) :
    LET tile == Hand(gameState, UserIndex)[i]
        after == discardTile(gameState, UserIndex, tile)
    IN /\ TableShown
       /\ gameState.currentPlayer = UserIndex
       /\ gameState.phase = "discard"
       /\ explore = "opening" => TurnsPlayed(gameState) < MaxTurns
       /\ gameState' = after
       /\ tasks' = Append(tasks, TurnTask(ViewOf(after), claimInProgress))
       /\ lastCall' = Call("discardTile", UserIndex, tile, "", TRUE)
       /\ UNCHANGED <<explore, probe, claimInProgress>>

\* handleClaim(action) from the claim dialog: the Claim button is enabled
\* while there is a last discard and the user is not the current player or
\* has not drawn; the dialog offers chow, pung and kong when valid, and win
HandleClaim ==
  \E type \in ClaimTypes :
    \E r \in {processClaim(gameState, [type |-> type, playerId |-> UserIndex])} :
    /\ TableShown
    /\ FreeChoice
    /\ gameState.lastDiscard # NoTile
    /\ gameState.currentPlayer # UserIndex \/ ~gameState.hasDrawnThisTurn
    /\ Len(gameState.ambitions) < MaxLedger
    /\ TotalMelds(gameState) < MaxMelds
    /\ type = "win"
         \/ isValidClaim(gameState, [type |-> type, playerId |-> UserIndex])
    /\ gameState' = r.g
    /\ tasks' = IF r.ret /\ r.g.currentPlayer # UserIndex
                THEN Append(tasks, TurnTask(ViewOf(r.g), claimInProgress))
                ELSE tasks
    /\ lastCall' = Call("processClaim", UserIndex, gameState.lastDiscard, type, r.ret)
    /\ UNCHANGED <<explore, probe, claimInProgress>>

\* the timers and the AI turns, which run without the user
Scheduled == SimulateAITurn \/ ApplyDecision \/ ClaimWindowExpires

NextOrch == Scheduled \/ HandleTileClick \/ HandleDiscard \/ HandleClaim

SpecOrch == InitOrch /\ [][NextOrch]_vars

Pending(kind) == \E i \in 1..Len(tasks) : tasks[i].kind = kind

\* Every timer that is set fires, and every awaited delay ends.  For the
\* steps that run the AI, weak fairness is written as the recurrence it
\* amounts to (infinitely often no such step is pending, or infinitely
\* often one is taken), which implies WF_vars of the step because the step
\* is disabled whenever none is pending, and which is evaluated on the
\* steps taken instead of through ENABLED of makeDecision.
FairSpecOrch ==
  /\ SpecOrch
  /\ WF_vars(ClaimWindowExpires)
  /\ ([]<>~Pending("turn") \/ []<><<SimulateAITurn>>_vars)
  /\ ([]<>~Pending("think") \/ []<><<ApplyDecision>>_vars)

(***************************************************************************)
(* isWinningHand called on hands put together from trios and pairs, with   *)
(* an exposed meld and a flower or without, and on the same hands with one *)
(* tile moved to the end, which is where a drawn or claimed tile goes.     *)
(***************************************************************************)
\* tiles in the hand up to which groups are added
MaxHand == 18
\* tiles moved to the end of a hand
MaxMoves == 1
\* melds given to a call
MaxProbeMelds == 1

\* kinds of the trios: three east winds, three red dragons, circles 7 8 9,
\* bamboos 1 2 3
TrioMenu == << <<27, 27, 27>>, <<31, 31, 31>>, <<6, 7, 8>>, <<9, 10, 11>> >>

\* kinds of the pairs, taken in this order: circles 1 to 7
PairKinds == <<0, 1, 2, 3, 4, 5, 6>>

\* an exposed pung and an exposed kong of bamboos 9
MeldMenu ==
  {[type |-> "pung", tiles |-> <<69, 70, 71>>, isConcealed |-> FALSE,
    claimedFrom |-> 1],
   [type |-> "kong", tiles |-> <<69, 70, 71, 72>>, isConcealed |-> FALSE,
    claimedFrom |-> 1]}

KindCount(hand, k) == Len(SelectSeq(hand, LAMBDA t : Kind(t) = k))

\* the four copies of kind k are the tiles 4k+1 .. 4k+4
RECURSIVE AddKinds(_, _)
AddKinds(hand, kinds) ==
  IF kinds = <<>> THEN hand
  ELSE AddKinds(Append(hand, 4 * Head(kinds) + 1 + KindCount(hand, Head(kinds))),
                Tail(kinds))

Available(hand, kinds) ==
  \A k \in Range(kinds) : KindCount(hand, k) + KindCount(AddKinds(<<>>, kinds), k) <= 4

InitWin ==
  /\ gameState = initializeGame(DealPlain, FlowerWallOrder, 0)
  /\ lastCall = Call("initializeGame", 0, NoTile, "", TRUE)
  /\ explore = "api"
  /\ NoPage
  /\ \E flowers \in {<<>>, <<NumRegular + 1>>} :
       probe = WinCall(<<>>, <<>>, flowers, 0, 1, 0, 0)

AddMeld ==
  \E meld \in MeldMenu :
    /\ probe.hand = <<>>
    /\ Len(probe.melds) < MaxProbeMelds
    /\ probe' = WinCall(probe.hand, Append(probe.melds, meld), probe.flowers,
                        probe.trios, probe.lastTrio, probe.pairs, probe.moves)
    /\ UNCHANGED <<gameState, lastCall, explore, tasks, claimInProgress>>

AddTrio ==
  \E j \in probe.lastTrio..Len(TrioMenu) :
    /\ probe.pairs = 0 /\ probe.moves = 0
    /\ Len(probe.hand) + 3 <= MaxHand
    /\ Available(probe.hand, TrioMenu[j])
    /\ probe' = WinCall(AddKinds(probe.hand, TrioMenu[j]), probe.melds,
                        probe.flowers, probe.trios + 1, j, probe.pairs, 0)
    /\ UNCHANGED <<gameState, lastCall, explore, tasks, claimInProgress>>

AddPair ==
  LET kinds == <<PairKinds[probe.pairs + 1], PairKinds[probe.pairs + 1]>> IN
  /\ probe.pairs < Len(PairKinds) /\ probe.moves = 0
  /\ Len(probe.hand) + 2 <= MaxHand
  /\ Available(probe.hand, kinds)
  /\ probe' = WinCall(AddKinds(probe.hand, kinds), probe.melds, probe.flowers,
                      probe.trios, probe.lastTrio, probe.pairs + 1, 0)
  /\ UNCHANGED <<gameState, lastCall, explore, tasks, claimInProgress>>

\* hand.splice(i, 1) and hand.push(tile) on a hand of 17 tiles with the melds
MoveLast ==
  \E i \in 1..(Len(probe.hand) - 1) :
    /\ Len(probe.hand) + MeldTileCount(probe.melds) = 17
    /\ probe.moves < MaxMoves
    /\ probe' = WinCall(Append(RemoveAt(probe.hand, i), probe.hand[i]),
                        probe.melds, probe.flowers, probe.trios,
                        probe.lastTrio, probe.pairs, probe.moves + 1)
    /\ UNCHANGED <<gameState, lastCall, explore, tasks, claimInProgress>>

NextWin == AddMeld \/ AddTrio \/ AddPair \/ MoveLast

SpecWin == InitWin /\ [][NextWin]_vars

(***************************************************************************)
(* isWinningHand called with exposed chows: up to four of the menu beside  *)
(* a hand put together from trios and pairs.                               *)
(***************************************************************************)
\* chows given to a call
MaxChows == 4

\* the tiles of the chows: characters 1 2 3, 4 5 6, 7 8 9, a second
\* characters 2 3 4 and bamboos 4 5 6
ChowMenu ==
  << <<73, 77, 81>>, <<85, 89, 93>>, <<97, 101, 105>>, <<78, 82, 86>>,
     <<49, 53, 57>> >>

\* chows of the menu are given in the menu's order, each once
AddChow ==
  \E j \in 1..Len(ChowMenu) :
    /\ probe.hand = <<>>
    /\ Len(probe.melds) < MaxChows
    /\ \A i \in 1..Len(probe.melds) :
         \E h \in 1..(j - 1) : probe.melds[i].tiles = ChowMenu[h]
    /\ probe' = WinCall(probe.hand,
                        Append(probe.melds,
                               [type |-> "chow", tiles |-> ChowMenu[j],
                                isConcealed |-> FALSE, claimedFrom |-> 1]),
                        probe.flowers, probe.trios, probe.lastTrio,
                        probe.pairs, probe.moves)
    /\ UNCHANGED <<gameState, lastCall, explore, tasks, claimInProgress>>

NextEscalera == AddChow \/ AddTrio \/ AddPair

SpecEscalera == InitWin /\ [][NextEscalera]_vars

(***************************************************************************)
(* isWinningHand called on hands of trios and one pair, 17 tiles with the  *)
(* melds, in which one tile was exchanged for another, as a discard        *)
(* followed by a draw does.                                                *)
(***************************************************************************)
\* tiles that come into a hand: the third 1 of circles and a white dragon
ExchangeTiles == {3, 129}

\* hand.splice(i, 1) and hand.push(tile) on the first or the last tile
Exchange ==
  \E i \in {1, Len(probe.hand)}, tile \in ExchangeTiles :
    /\ probe.pairs = 1
    /\ Len(probe.hand) + MeldTileCount(probe.melds) = 17
    /\ probe.moves < MaxMoves
    /\ tile \notin Range(probe.hand)
    /\ probe' = WinCall(Append(RemoveAt(probe.hand, i), tile), probe.melds,
                        probe.flowers, probe.trios, probe.lastTrio,
                        probe.pairs, probe.moves + 1)
    /\ UNCHANGED <<gameState, lastCall, explore, tasks, claimInProgress>>

NextExchange == AddMeld \/ AddTrio \/ AddPair \/ Exchange

SpecExchange == InitWin /\ [][NextExchange]_vars

(***************************************************************************)
(* Properties.                                                             *)
(***************************************************************************)
RECURSIVE SumOver(_, _)
\* sum of f[p] over the players in ps
SumOver(f, ps) ==
  IF ps = {} THEN 0
  ELSE LET p == CHOOSE q \in ps : TRUE IN f[p] + SumOver(f, ps \ {p})

HandTotal(g) == SumOver([p \in PlayerIds |-> Len(Hand(g, p))], PlayerIds)
MeldTotal(g) == SumOver([p \in PlayerIds |-> MeldTileCount(Melds(g, p))], PlayerIds)
DiscardTotal(g) == SumOver([p \in PlayerIds |-> Len(Discards(g, p))], PlayerIds)
FlowerTotal(g) == SumOver([p \in PlayerIds |-> Len(Flowers(g, p))], PlayerIds)

ClaimApplied(type) ==
  lastCall.op = "processClaim" /\ lastCall.type = type /\ lastCall.ok

\* C1: the wall, the hands, the meld tiles, the players' discard
\* lists and the flower collections together hold 144 tiles in every state.
C1_TileConservation ==
  Len(gameState.wall) + HandTotal(gameState) + MeldTotal(gameState)
    + DiscardTotal(gameState) + FlowerTotal(gameState) = NumTiles

HeldTiles(g, p) == Len(Hand(g, p)) + MeldTileCount(Melds(g, p))

\* C2: while the game is being played every player other than the current
\* one holds 16 tiles in hand and melds, and the current player holds 17
\* whenever the phase is discard.
C2_HandSize ==
  gameState.status = "playing" =>
    \A p \in PlayerIds :
      IF p # gameState.currentPlayer THEN HeldTiles(gameState, p) = 16
      ELSE gameState.phase = "discard" => HeldTiles(gameState, p) = 17

\* C3: while some player can claim Win on the last discard, no Pung of that
\* discard by another player is applied.
C3_WinBeforePung ==
  [][\A a, b \in PlayerIds :
       (/\ a # b
        /\ isValidClaim(gameState, [type |-> "win", playerId |-> a])
        /\ lastCall'.op = "processClaim" /\ lastCall'.type = "pung"
        /\ lastCall'.player = b)
       => ~lastCall'.ok]_vars

\* C4: a claim submitted right after a successful claim against the same
\* discard is rejected.
C4_OneClaimPerDiscard ==
  [][(/\ lastCall.op = "processClaim" /\ lastCall.ok
      /\ lastCall'.op = "processClaim"
      /\ lastCall'.tile = lastCall.tile)
     => ~lastCall'.ok]_vars

KongApplied(p) ==
  /\ lastCall'.op = "processClaim" /\ lastCall'.type = "kong"
  /\ lastCall'.player = p /\ lastCall'.ok

\* the hand of p after the kong: three tiles matching the discard left it
\* and n tiles from the front of the wall entered it
KongDrew(p, n) ==
  /\ Len(gameState'.wall) = Len(gameState.wall) - n
  /\ Hand(gameState', p) =
       RemoveIds(Hand(gameState, p), Take(Matching(Hand(gameState, p),
                                                   gameState.lastDiscard), 3))
       \o SubSeq(gameState.wall, 1, n)
  /\ gameState'.currentPlayer = p /\ gameState'.phase = "discard"

\* C5: every successful Kong claim draws exactly one replacement
\* tile into the claimant's hand, and the claimant is then to discard.
C5_KongDrawsOne ==
  [][\A p \in PlayerIds : KongApplied(p) => KongDrew(p, 1)]_vars

\* C6: a discardTile call changes the game only when the tile is in the
\* player's hand, the player is the current player and the phase is discard.
C6_DiscardGuarded ==
  [][lastCall'.op = "discardTile" =>
       \/ /\ lastCall'.tile \in Range(Hand(gameState, lastCall'.player))
          /\ gameState.currentPlayer = lastCall'.player
          /\ gameState.phase = "discard"
       \/ gameState' = gameState]_vars

\* C7: a drawTile call for a player who is not the current player, or while
\* the phase is discard, leaves the game unchanged.
C7_DrawGuarded ==
  [][lastCall'.op = "drawTile" =>
       \/ /\ gameState.currentPlayer = lastCall'.player
          /\ gameState.phase = "draw"
       \/ gameState' = gameState]_vars

\* C8: drawTile on an empty wall returns no tile and leaves the game
\* unchanged.
C8_EmptyWallDraw ==
  [][(lastCall'.op = "drawTile" /\ gameState.wall = <<>>)
     => (lastCall'.tile = NoTile /\ gameState' = gameState)]_vars

\* a draw was attempted on the empty wall
C8_Witness ==
  /\ lastCall.op = "drawTile" /\ ~lastCall.ok
  /\ gameState.wall = <<>>
  /\ gameState.status = "playing"

\* the tile requirement of each claim kind, stated on the hand and discard
MeetsRequirements(g, claim) ==
  /\ claim.playerId \in PlayerIds
  /\ g.lastDiscard # NoTile
  /\ LET hand == Hand(g, claim.playerId)
         d == g.lastDiscard
         same == {i \in 1..Len(hand) : Kind(hand[i]) = Kind(d)}
     IN CASE claim.type = "chow" ->
               /\ TileSuit(d) \in NumberedSuits
               /\ \E i, j \in 1..Len(hand) :
                    /\ i # j
                    /\ TileSuit(hand[i]) = TileSuit(d)
                    /\ TileSuit(hand[j]) = TileSuit(d)
                    /\ \E lo \in 1..7 :
                         {TileValue(hand[i]), TileValue(hand[j]), TileValue(d)}
                           = {lo, lo + 1, lo + 2}
          [] claim.type = "pung" -> Cardinality(same) >= 2
          [] claim.type = "kong" -> Cardinality(same) >= 3
          [] claim.type = "win" ->
               isWinningHand(Append(hand, d), Melds(g, claim.playerId),
                             Flowers(g, claim.playerId)).isValid
          [] OTHER -> FALSE

\* C9: a claim that does not meet its tile requirement, or is made with no
\* last discard or by an unknown player, is not valid, returns false and
\* leaves the game unchanged.
C9_InvalidClaimRejected ==
  [][lastCall'.op = "processClaim" =>
       LET claim == [type |-> lastCall'.type, playerId |-> lastCall'.player] IN
       ~MeetsRequirements(gameState, claim) =>
         /\ ~isValidClaim(gameState, claim)
         /\ ~lastCall'.ok
         /\ gameState' = gameState]_vars

\* a pung was refused to a player holding fewer than two matching tiles
C9_Witness ==
  /\ lastCall.op = "processClaim" /\ lastCall.type = "pung" /\ ~lastCall.ok
  /\ lastCall.player \in PlayerIds
  /\ gameState.lastDiscard # NoTile
  /\ Len(Matching(Hand(gameState, lastCall.player), gameState.lastDiscard)) = 1
\* a draw by the page found the wall empty while the game is being played
NoTileSignalled ==
  /\ lastCall.op = "drawTile" /\ ~lastCall.ok
  /\ gameState.wall = <<>>
  /\ gameState.status = "playing"

\* C10: once a draw has found the wall empty while the game is being played,
\* the game eventually ends or no timer and no AI turn is left pending.
C10_WallExhaustionEnds ==
  NoTileSignalled ~> (gameState.status # "playing" \/ tasks = <<>>)

AITurn == gameState.status = "playing" /\ gameState.currentPlayer # UserIndex

StateChangingCall ==
  /\ lastCall.op \in {"drawTile", "discardTile", "processClaim"}
  /\ lastCall.ok

\* C11: whenever the game is being played and an AI is the current player, a
\* draw, discard or claim that changes the game is eventually made or the
\* game ends.
C11_AIProgress ==
  AITurn ~> (StateChangingCall \/ gameState.status # "playing")

\* C12: every drawTile and discardTile the page applies is for the player
\* who is the current player of the game the page holds, in the draw phase
\* for a draw and in the discard phase for a discard.
C12_CallsSerialized ==
  [][lastCall'.op \in {"drawTile", "discardTile"} =>
       /\ lastCall'.player = gameState.currentPlayer
       /\ gameState.phase = IF lastCall'.op = "drawTile" THEN "draw"
                            ELSE "discard"]_vars

C14_FiveTriosAndPair ==
  (probe.trios = 5 /\ probe.pairs = 1 /\ probe.melds = <<>>) =>
    /\ probe.ret.isValid
    /\ probe.ret.handType = "Standard Win"
    /\ "todas" \in Range(probe.ret.ambitions)

\* C15: moving a tile of the hand to the end does not change isValid.
C15_OrderIndependent ==
  [][(/\ probe'.moves = probe.moves + 1
      /\ Range(probe'.hand) = Range(probe.hand)
      /\ probe'.melds = probe.melds)
     => probe'.ret.isValid = probe.ret.isValid]_vars

SevenPairsAndTriplet ==
  /\ probe.pairs = 7 /\ probe.trios = 1 /\ probe.lastTrio \in {1, 2}
  /\ probe.melds = <<>>

Initialized == lastCall.op = "initializeGame"

\* C17 as stated: initializeGame returns a wall of 67 tiles and
\* hasDrawnThisTurn true.
C17_WallAfterDeal67 ==
  Initialized => Len(gameState.wall) = 67 /\ gameState.hasDrawnThisTurn

\* C17: with no bonus tile in the deal, initializeGame returns a wall of
\* 71 tiles (136 - 64 - 1) and hasDrawnThisTurn true.
C17_WallAfterDeal ==
  (Initialized /\ FlowerTotal(gameState) = 0) =>
    Len(gameState.wall) = 71 /\ gameState.hasDrawnThisTurn

C17_Witness ==
  /\ Initialized /\ FlowerTotal(gameState) = 0
  /\ Len(gameState.wall) = 71 /\ gameState.dealer = 2

\* C18: initializeGame returns a game in which the dealer holds 17 hand
\* tiles and every other player 16, the dealer is the current player, the
\* phase is discard, the status is playing and no hand has a bonus tile.
C18_ReadyToPlay ==
  Initialized =>
    /\ \A p \in PlayerIds :
         /\ Len(Hand(gameState, p)) = IF p = gameState.dealer THEN 17 ELSE 16
         /\ \A i \in 1..Len(Hand(gameState, p)) : ~isBonus(Hand(gameState, p)[i])
    /\ gameState.currentPlayer = gameState.dealer
    /\ gameState.phase = "discard"
    /\ gameState.status = "playing"

C18_Witness ==
  /\ Initialized /\ gameState.dealer = 3
  /\ Len(Hand(gameState, 3)) = 17 /\ Len(Hand(gameState, 0)) = 16

\* C19: every successful claim leaves lastDiscard empty, a draw does not
\* change it, and it changes only by a successful claim or by a discard.
C19_LastDiscardCleared ==
  [][/\ (lastCall'.op = "processClaim" /\ lastCall'.ok)
          => gameState'.lastDiscard = NoTile
     /\ lastCall'.op = "drawTile"
          => gameState'.lastDiscard = gameState.lastDiscard
     /\ gameState'.lastDiscard # gameState.lastDiscard
          => \/ lastCall'.op = "processClaim" /\ lastCall'.ok
             \/ lastCall'.op = "discardTile"]_vars

RECURSIVE PayoutSum(_)
PayoutSum(entries) ==
  IF entries = <<>> THEN 0 ELSE Head(entries).payout + PayoutSum(Tail(entries))

\* the ledger after the call is the ledger before it followed by one entry
\* of player p for each ambition of the report, in order
LedgerExtended(p, report) ==
  LET old == gameState.ambitions
      new == gameState'.ambitions
      added == SubSeq(new, Len(old) + 1, Len(new))
  IN /\ Len(new) = Len(old) + Len(report.ambitions)
     /\ SubSeq(new, 1, Len(old)) = old
     /\ \A i \in 1..Len(added) :
          added[i].type = report.ambitions[i] /\ added[i].playerId = p
     /\ PayoutSum(added) = report.totalPayout

\* C20: a successful win claim sets status to finished and winner to the
\* claimant, and appends to the ledger one entry per ambition that
\* isWinningHand reports for the hand with the discard, with payouts that
\* add up to the total of the report; the entries before it stay.
C20_WinRecorded ==
  [][\A p \in PlayerIds :
       (/\ lastCall'.op = "processClaim" /\ lastCall'.type = "win"
        /\ lastCall'.player = p /\ lastCall'.ok)
       => /\ gameState'.status = "finished"
          /\ gameState'.winner = p
          /\ LedgerExtended(p, isWinningHand(
                                 Append(Hand(gameState, p), gameState.lastDiscard),
                                 Melds(gameState, p), Flowers(gameState, p)))]_vars

C20_Witness ==
  /\ ClaimApplied("win")
  /\ gameState.status = "finished" /\ gameState.winner = lastCall.player
  /\ Len(gameState.ambitions) >= 3

\* makeDecision was called by simulateAITurn in the step
DecisionMade == lastCall'.op = "simulateAITurn" /\ lastCall'.ok

WinsAlone(g, p) == isWinningHand(Hand(g, p), Melds(g, p), Flowers(g, p)).isValid

\* the hand of p with the pending discard is a winning hand
WinsOnDiscard(g, p) ==
  /\ g.lastDiscard # NoTile
  /\ isWinningHand(Append(Hand(g, p), g.lastDiscard),
                   Melds(g, p), Flowers(g, p)).isValid

\* C22: makeDecision returns 'win' for a player whose hand with the melds
\* is a winning 17-tile hand by itself (after a draw) or is one with the
\* pending discard added.
C22_WinDeclared ==
  \A p \in PlayerIds :
    (WinsAlone(gameState, p) \/ WinsOnDiscard(gameState, p))
      => makeDecision(gameState, p).action = "win"

\* the player whose discard is pending: the tile is the last of their
\* discard list
Discarder(g) ==
  CHOOSE p \in PlayerIds :
    Discards(g, p) # <<>> /\ Discards(g, p)[Len(Discards(g, p))] = g.lastDiscard

\* C23: a chow claim is accepted only from the player immediately after
\* the discarder in turn order; a chow claim by any other player is
\* rejected.
C23_ChowFromLeftOnly ==
  [][(lastCall'.op = "processClaim" /\ lastCall'.type = "chow" /\ lastCall'.ok)
       => lastCall'.player = (Discarder(gameState) + 1) % 4]_vars

\* the only meld of the call is an exposed kong
KongMeld == Len(probe.melds) = 1 /\ probe.melds[1].type = "kong"

\* C24: a kong counts as one trio: a call with a kong among the melds and
\* the remaining four trios and a pair in the hand is accepted.
C24_KongCountsAsTrio ==
  (KongMeld /\ probe.trios = 4 /\ probe.pairs = 1) => probe.ret.isValid

\* the current player p has drawn a wall tile and holds a winning hand
SelfDrawnWin(p) ==
  /\ gameState.status = "playing"
  /\ gameState.currentPlayer = p /\ gameState.phase = "discard"
  /\ gameState.lastDrawnTile # NoTile
  /\ Hand(gameState, p) # <<>>
  /\ Hand(gameState, p)[Len(Hand(gameState, p))] = gameState.lastDrawnTile
  /\ WinsAlone(gameState, p)

\* a control of the table is enabled for the user: the draw, the discard
\* or the Claim button
UserCanAct ==
  /\ TableShown
  /\ \/ gameState.currentPlayer = UserIndex /\ gameState.phase \in {"draw", "discard"}
     \/ /\ gameState.lastDiscard # NoTile
        /\ gameState.currentPlayer # UserIndex \/ ~gameState.hasDrawnThisTurn

\* no timer or AI turn is pending and the user has no control to use: the
\* page makes no further call of the engine
Halted == tasks = <<>> /\ ~UserCanAct

\* C25: from a state in which the current player has drawn a wall tile that
\* completes a winning 17-tile hand, a finished state with that player as
\* winner can be reached by the page; so in no such state has the page
\* halted with the game still being played.
C25_SelfDrawWinReachable == \A p \in PlayerIds : SelfDrawnWin(p) => ~Halted

\* C26: while hasDrawnThisTurn is true no claim by the current player is
\* accepted: isValidClaim is false and processClaim returns false for the
\* current player until they discard.
C26_NoClaimAfterDraw ==
  [][\A p \in PlayerIds, type \in ClaimTypes :
       (gameState.hasDrawnThisTurn /\ gameState.currentPlayer = p)
       => /\ ~isValidClaim(gameState, [type |-> type, playerId |-> p])
          /\ (/\ lastCall'.op = "processClaim" /\ lastCall'.player = p
              /\ lastCall'.type = type) => ~lastCall'.ok]_vars

\* seq without its element at position i
Without(seq, i) == SubSeq(seq, 1, i - 1) \o SubSeq(seq, i + 1, Len(seq))

\* C27: a discard by the current player of a tile of their hand takes
\* exactly that tile out of the hand, appends it to the player's discards
\* and to the discard pile, makes it lastDiscard, advances currentPlayer
\* by one modulo 4, sets phase to draw and hasDrawnThisTurn to false, and
\* leaves the wall, every meld and flower list and the other hands as
\* they were.
C27_DiscardEffect ==
  [][\A p \in PlayerIds :
       (/\ lastCall'.op = "discardTile" /\ lastCall'.player = p
        /\ gameState.currentPlayer = p
        /\ lastCall'.tile \in Range(Hand(gameState, p)))
       => /\ \E i \in 1..Len(Hand(gameState, p)) :
               /\ Hand(gameState, p)[i] = lastCall'.tile
               /\ Hand(gameState', p) = Without(Hand(gameState, p), i)
          /\ Discards(gameState', p) = Append(Discards(gameState, p), lastCall'.tile)
          /\ gameState'.discardPile = Append(gameState.discardPile, lastCall'.tile)
          /\ gameState'.lastDiscard = lastCall'.tile
          /\ gameState'.currentPlayer = (p + 1) % 4
          /\ gameState'.phase = "draw"
          /\ ~gameState'.hasDrawnThisTurn
          /\ gameState'.wall = gameState.wall
          /\ \A q \in PlayerIds :
               /\ Melds(gameState', q) = Melds(gameState, q)
               /\ Flowers(gameState', q) = Flowers(gameState, q)
               /\ q # p => /\ Hand(gameState', q) = Hand(gameState, q)
                           /\ Discards(gameState', q) = Discards(gameState, q)]_vars

\* a tile was discarded of which the hand keeps another copy
C27_Witness ==
  /\ lastCall.op = "discardTile" /\ lastCall.ok
  /\ gameState.lastDiscard = lastCall.tile
  /\ \E i \in 1..Len(Hand(gameState, lastCall.player)) :
       tilesMatch(Hand(gameState, lastCall.player)[i], lastCall.tile)

\* the tiles of the hand of p that the step takes out of it
TakenFromHand(p) == Range(Hand(gameState, p)) \ Range(Hand(gameState', p))

\* C28: a successful chow, pung or kong claim takes exactly 2 (chow, pung)
\* or 3 (kong) tiles out of the claimant's hand, takes the claimed tile off
\* the discard pile, appends to the claimant's melds one exposed meld of
\* those tiles and the discard, makes the claimant the current player,
\* clears lastDiscard and sets phase discard and hasDrawnThisTurn; the
\* hands and melds of the other players stay as they were.
C28_ClaimEffect ==
  [][\A p \in PlayerIds, type \in {"chow", "pung", "kong"} :
       (/\ lastCall'.op = "processClaim" /\ lastCall'.player = p
        /\ lastCall'.type = type /\ lastCall'.ok)
       => LET n == IF type = "kong" THEN 3 ELSE 2
              discard == gameState.lastDiscard
              kept == SelectSeq(Hand(gameState, p),
                                LAMBDA t : t \notin TakenFromHand(p))
              melds == Melds(gameState', p)
              meld == melds[Len(melds)]
          IN /\ Cardinality(TakenFromHand(p)) = n
             /\ Len(kept) = Len(Hand(gameState, p)) - n
             /\ SubSeq(Hand(gameState', p), 1, Len(kept)) = kept
             /\ type # "kong" => Hand(gameState', p) = kept
             /\ discard \in Range(gameState.discardPile)
             /\ gameState'.discardPile =
                  SelectSeq(gameState.discardPile, LAMBDA t : t # discard)
             /\ melds = Append(Melds(gameState, p), meld)
             /\ meld.type = type /\ ~meld.isConcealed
             /\ Len(meld.tiles) = n + 1
             /\ Range(meld.tiles) = TakenFromHand(p) \cup {discard}
             /\ gameState'.currentPlayer = p
             /\ gameState'.lastDiscard = NoTile
             /\ gameState'.phase = "discard"
             /\ gameState'.hasDrawnThisTurn
             /\ \A q \in PlayerIds \ {p} :
                  /\ Hand(gameState', q) = Hand(gameState, q)
                  /\ Melds(gameState', q) = Melds(gameState, q)]_vars

\* a kong was claimed and its replacement tile drawn, after another meld
\* claim in the same game
C28_Witness ==
  /\ ClaimApplied("kong")
  /\ Len(Hand(gameState, lastCall.player)) = 14
  /\ TotalMelds(gameState) >= 2

\* C29: the meld formed by a claim has claimedFrom equal to the index of
\* the player who discarded the claimed tile, and never to the index of
\* the claimant.
C29_ClaimedFromDiscarder ==
  [][\A p \in PlayerIds :
       (/\ lastCall'.op = "processClaim" /\ lastCall'.player = p
        /\ lastCall'.type \in {"chow", "pung", "kong"} /\ lastCall'.ok)
       => LET melds == Melds(gameState', p)
              meld == melds[Len(melds)]
          IN /\ meld.claimedFrom = Discarder(gameState)
             /\ meld.claimedFrom # p]_vars

\* the claim of the kind by player p
ClaimOf(type, p) == [type |-> type, playerId |-> p]

Holds(hand, d, v) ==
  \E i \in 1..Len(hand) : TileSuit(hand[i]) = TileSuit(d) /\ TileValue(hand[i]) = v

\* the values of the two hand tiles of the first pattern that the hand
\* satisfies for the discard d, in the order low, middle, high
FirstPattern(hand, d) ==
  LET v == TileValue(d) IN
  IF v <= 7 /\ Holds(hand, d, v + 1) /\ Holds(hand, d, v + 2) THEN {v + 1, v + 2}
  ELSE IF v >= 2 /\ v <= 8 /\ Holds(hand, d, v - 1) /\ Holds(hand, d, v + 1)
  THEN {v - 1, v + 1}
  ELSE {v - 2, v - 1}

\* C31: a chow claim forms the meld from the first pattern the hand
\* satisfies in the order discard low, discard in the middle, discard high,
\* and the two tiles taken out of the hand are the two hand tiles of that
\* pattern (for each rank the first tile of the hand with it).
C31_FirstChowPattern ==
  [][\A p \in PlayerIds :
       (/\ lastCall'.op = "processClaim" /\ lastCall'.player = p
        /\ lastCall'.type = "chow" /\ lastCall'.ok)
       => LET d == gameState.lastDiscard
              hand == Hand(gameState, p)
              melds == Melds(gameState', p)
              meld == melds[Len(melds)]
          IN /\ \A t \in TakenFromHand(p) : TileSuit(t) = TileSuit(d)
             /\ {TileValue(t) : t \in TakenFromHand(p)} = FirstPattern(hand, d)
             /\ Cardinality(TakenFromHand(p)) = 2
             /\ \A i \in 1..Len(hand) :
                  hand[i] \in TakenFromHand(p) =>
                    \A j \in 1..(i - 1) : ~tilesMatch(hand[j], hand[i])
             /\ Range(meld.tiles) = TakenFromHand(p) \cup {d}]_vars

\* a chow was formed with the discard as the low tile by a player who also
\* held the tiles of the two other patterns
C31_Witness ==
  /\ ClaimApplied("chow")
  /\ LET p == lastCall.player
         d == lastCall.tile
         melds == Melds(gameState, p)
         meld == melds[Len(melds)]
     IN /\ {TileValue(meld.tiles[i]) : i \in 1..3}
             = {TileValue(d), TileValue(d) + 1, TileValue(d) + 2}
        /\ Holds(Hand(gameState, p), d, TileValue(d) - 1)
        /\ Holds(Hand(gameState, p), d, TileValue(d) - 2)

RECURSIVE MeldTiles(_)
\* the tiles of the melds, in one sequence
MeldTiles(ms) == IF ms = <<>> THEN <<>> ELSE Head(ms).tiles \o MeldTiles(Tail(ms))

\* the candidate tiles of the call: the hand tiles and the meld tiles
Candidate == probe.hand \o MeldTiles(probe.melds)

\* the kinds of which the candidate tiles hold n
KindsHeld(n) == {k \in 0..33 : KindCount(Candidate, k) = n}

\* the candidate tiles are 17 that group into one group of 3 and seven
\* groups of 2, four of a kind being two groups of 2
SietePairsGroups ==
  /\ Len(Candidate) = 17
  /\ \A i \in 1..Len(Candidate) : ~isBonus(Candidate[i])
  /\ Cardinality(KindsHeld(3)) = 1
  /\ Cardinality(KindsHeld(2)) + 2 * Cardinality(KindsHeld(4)) = 7

\* C32: isWinningHand accepts as Siete Pares every candidate total of 17
\* tiles, hand tiles and meld tiles together, that groups by suit and rank
\* into one group of 3 and seven groups of 2, however the tiles are split
\* between the hand and the melds.
C32_SieteParesAnySplit ==
  SietePairsGroups => probe.ret.isValid /\ probe.ret.handType = "Siete Pares"


\* three chows of one suit among the melds whose ranks together are
\* exactly 1 to 9
ThreeChowsOneToNine(melds) ==
  \E i, j, k \in 1..Len(melds) :
    /\ i < j /\ j < k
    /\ \A h \in {i, j, k} :
         /\ melds[h].type = "chow"
         /\ TileSuit(melds[h].tiles[1]) = TileSuit(melds[i].tiles[1])
    /\ \A v \in 1..9 :
         Cardinality({<<h, n>> \in {i, j, k} \X (1..3) :
                        TileValue(melds[h].tiles[n]) = v}) = 1

\* C33: on a standard win the escalera ambition is reported if and only if
\* the melds contain three chows of one suit whose ranks together are
\* exactly 1 to 9, whatever other chows the meld list holds.
C33_EscaleraIff ==
  probe.ret.isValid /\ probe.ret.handType = "Standard Win"
    => (("escalera" \in Range(probe.ret.ambitions))
          <=> ThreeChowsOneToNine(probe.melds))


\* the other tiles of the hand that match the tile
OthersMatching(hand, tile) ==
  Len(SelectSeq(hand, LAMBDA t : tilesMatch(t, tile) /\ t # tile))

\* the conservative score of the i-th tile of player p under the strategy
ScoreForWin(p, i, strategy) ==
  evaluateDiscardValueForWin(Hand(gameState, p)[i], Hand(gameState, p),
                             [tilesAwayFromWin |-> 2, bestStrategy |-> strategy])

\* the normal score of the i-th tile of player p
ScoreNormal(p, i) ==
  evaluateDiscardValue(Hand(gameState, p)[i], Hand(gameState, p), gameState)

\* C34: a tile that has one other matching tile in the hand, or two or
\* more, scores strictly higher with evaluateDiscardValueForWin than with
\* evaluateDiscardValue in the same state, under the pairs strategy and
\* under the sequences strategy.
C34_ConservativeHigher ==
  \A p \in PlayerIds : \A i \in 1..Len(Hand(gameState, p)) :
    OthersMatching(Hand(gameState, p), Hand(gameState, p)[i]) >= 1
      => \A strategy \in {"pairs", "sequences"} :
           ScoreForWin(p, i, strategy) > ScoreNormal(p, i)

\* a hand that holds a tile of a pair and a tile of a triplet after tiles
\* have been discarded, each scored higher by the conservative scoring
C34_Witness ==
  \E p \in PlayerIds : \E i, j \in 1..Len(Hand(gameState, p)) :
    /\ OthersMatching(Hand(gameState, p), Hand(gameState, p)[i]) = 1
    /\ OthersMatching(Hand(gameState, p), Hand(gameState, p)[j]) >= 2
    /\ gameState.discardPile # <<>>
    /\ ScoreForWin(p, i, "pairs") > ScoreNormal(p, i)
    /\ ScoreForWin(p, j, "sequences") > ScoreNormal(p, j)

\* C35: once status is finished the outcome is final: every later state has
\* status finished and the same winner, whatever engine calls or pending AI
\* decisions are executed afterwards.
C35_OutcomeFinal ==
  [][gameState.status = "finished"
       => /\ gameState'.status = "finished"
          /\ gameState'.winner = gameState.winner]_vars

\* C36: the player who discarded a tile never claims that discard
\* successfully, by chow, pung, kong or win.
C36_NoOwnDiscard ==
  [][(lastCall'.op = "processClaim" /\ lastCall'.ok)
       => lastCall'.player # Discarder(gameState)]_vars

\* the tiles a player holds in hand, melds, discard list and flowers
PlayerTiles(g, p) ==
  Hand(g, p) \o MeldTiles(Melds(g, p)) \o Discards(g, p) \o g.players[p].flowers

\* the tiles of the wall and of every player
PlacedTiles(g) ==
  g.wall \o PlayerTiles(g, 0) \o PlayerTiles(g, 1) \o PlayerTiles(g, 2)
         \o PlayerTiles(g, 3)

\* C37: no tile is in two places at once: each tile id occurs at most once
\* across the wall, the hands, the meld tile lists, the players' discard
\* lists and the flower collections.
C37_NoTileTwice ==
  \A t \in 1..NumTiles :
    Len(SelectSeq(PlacedTiles(gameState), LAMBDA u : u = t)) <= 1

\* how many tiles of each kind the hand holds
KindCounts(hand) == [k \in 0..33 |-> KindCount(hand, k)]

\* kinds k, k+1, k+2 are three consecutive ranks of one numbered suit
StartsRun(k) == k < 27 /\ k % 9 <= 6

RECURSIVE Splits(_, _, _)
\* the tiles counted by c can be divided, each tile used once, into the
\* number of trios (triplets or runs) and the number of pairs: the lowest
\* kind left is in a triplet, at the start of a run or in a pair
Splits(c, trios, pairs) ==
  IF \A k \in 0..33 : c[k] = 0 THEN trios = 0 /\ pairs = 0
  ELSE LET k == CHOOSE j \in 0..33 : c[j] > 0 /\ \A h \in 0..(j - 1) : c[h] = 0 IN
       \/ /\ trios > 0 /\ c[k] >= 3
          /\ Splits([c EXCEPT ![k] = @ - 3], trios - 1, pairs)
       \/ /\ trios > 0 /\ StartsRun(k) /\ c[k + 1] > 0 /\ c[k + 2] > 0
          /\ Splits([c EXCEPT ![k] = @ - 1, ![k + 1] = @ - 1, ![k + 2] = @ - 1],
                    trios - 1, pairs)
       \/ /\ pairs > 0 /\ c[k] >= 2
          /\ Splits([c EXCEPT ![k] = @ - 2], trios, pairs - 1)

\* C38: whenever isWinningHand returns a valid Standard Win, the hand tiles
\* can be divided into exactly 5 minus the number of melds trios, each a
\* triplet of matching tiles or three consecutive ranks of one numbered
\* suit, and one pair of matching tiles, every hand tile used exactly once.
C38_StandardWinSound ==
  probe.ret.isValid /\ probe.ret.handType = "Standard Win"
    => /\ Len(probe.melds) <= 5
       /\ Splits(KindCounts(probe.hand), 5 - Len(probe.melds), 1)

\* a Standard Win returned for a hand beside a meld after a tile of the
\* hand was exchanged, the hand dividing into four trios and a pair
C38_Witness ==
  /\ probe.ret.isValid /\ probe.ret.handType = "Standard Win"
  /\ probe.melds # <<>> /\ probe.moves = 1
  /\ Splits(KindCounts(probe.hand), 5 - Len(probe.melds), 1)

\* C39: in every state reached from initializeGame by drawTile, discardTile
\* and processClaim, hasDrawnThisTurn is true if and only if the phase is
\* discard.
C39_DrawnIffDiscardPhase ==
  gameState.hasDrawnThisTurn <=> gameState.phase = "discard"

\* a tile was drawn after a discard and a claim: the phase is discard again
C39_Witness ==
  /\ lastCall.op = "drawTile" /\ lastCall.ok
  /\ TotalMelds(gameState) > 0
  /\ DiscardTotal(gameState) > 0
  /\ gameState.hasDrawnThisTurn /\ gameState.phase = "discard"

\* C40: the 8 bonus tiles are in the flower wall, which is never drawn
\* from: no bonus tile is in the wall or in a hand, and every player's
\* flower collection is empty.
C40_NoBonusInPlay ==
  /\ \A i \in 1..Len(gameState.wall) : ~isBonus(gameState.wall[i])
  /\ \A p \in PlayerIds :
       /\ \A i \in 1..Len(Hand(gameState, p)) : ~isBonus(Hand(gameState, p)[i])
       /\ gameState.players[p].flowers = <<>>

\* the wall has been drawn to its last tile and the 8 bonus tiles are still
\* in the flower wall
C40_Witness ==
  /\ gameState.wall = <<>>
  /\ lastCall.op = "drawTile" /\ lastCall.ok
  /\ Len(gameState.flowerWall) = NumTiles - NumRegular
  /\ \A i \in 1..Len(gameState.flowerWall) : isBonus(gameState.flowerWall[i])
  /\ \A p \in PlayerIds : gameState.players[p].flowers = <<>>
====
